---- MODULE Spec2Model ----
(***************************************************************************)
(* A model of the chunk-streaming scheduler (src/src/lib/world.js) and of  *)
(* the chunk voxel store (src/src/lib/chunk.js) of the noa voxel engine.   *)
(*                                                                         *)
(* Conventions                                                             *)
(*  - a chunk id, the string "i|j|k" in the source, is the triple <<i,j,k>>*)
(*    of its decimal fields; getChunkID builds it, parseChunkID reads it.  *)
(*  - a chunk's ndarray maps padded cells <<a,b,c>>, each in 0..size+1, to *)
(*    the stored 16 bit value; it is kept as the map of its non-zero cells *)
(*    (a cell outside the map holds 0). The unpadded view at (x,y,z) is    *)
(*    the padded cell <<x+1,y+1,z+1>>.                                     *)
(*  - every handler runs as one action (the engine is single threaded);    *)
(*    `emitted' holds, in order, the events and collaborator calls the     *)
(*    last handler made.                                                   *)
(*  - chunkAddDistance and chunkRemoveDistance take whole numbers here.    *)
(***************************************************************************)
EXTENDS Integers, Sequences, FiniteSets, TLC

VARIABLES
    chunkSize,              \* World.chunkSize
    chunkAddDistance,       \* World.chunkAddDistance
    chunkRemoveDistance,    \* World.chunkRemoveDistance
    playerChunkLoaded,      \* World.playerChunkLoaded
    chunkIDsToAdd,          \* World._chunkIDsToAdd
    chunkIDsToRemove,       \* World._chunkIDsToRemove
    chunkIDsInMemory,       \* World._chunkIDsInMemory
    chunkIDsToCreate,       \* World._chunkIDsToCreate
    chunkIDsToMesh,         \* World._chunkIDsToMesh
    chunkIDsToMeshFirst,    \* World._chunkIDsToMeshFirst
    chunkHash,              \* World._chunkHash: hash key -> Chunk
    lastPlayerChunkID,      \* World._lastPlayerChunkID
    playerPos,              \* position of noa.playerEntity (world voxels)
    solidLookup,            \* registry._solidityLookup
    opaqueLookup,           \* registry._opacityLookup
    objectMeshLookup,       \* registry._blockMeshLookup
    blockHandlerLookup,     \* registry._blockHandlerLookup
    emitted                 \* events and calls of the last handler

vars == <<chunkSize, chunkAddDistance, chunkRemoveDistance, playerChunkLoaded,
          chunkIDsToAdd, chunkIDsToRemove, chunkIDsInMemory, chunkIDsToCreate,
          chunkIDsToMesh, chunkIDsToMeshFirst, chunkHash, lastPlayerChunkID,
          playerPos, solidLookup, opaqueLookup, objectMeshLookup,
          blockHandlerLookup, emitted>>

config == <<chunkSize, chunkAddDistance, chunkRemoveDistance>>
registry == <<solidLookup, opaqueLookup, objectMeshLookup, blockHandlerLookup>>
\* the state of the world without the log of the last handler
scheduler == <<playerChunkLoaded, chunkIDsToAdd, chunkIDsToRemove,
               chunkIDsInMemory, chunkIDsToCreate, chunkIDsToMesh,
               chunkIDsToMeshFirst, chunkHash, lastPlayerChunkID>>

----------------------------------------------------------------------------
(* Bounds of the model *)

\* most passes of the time-sliced loop of one tick or one render
MaxPasses == 2
\* the largest chunkSize of the worlds whose coordinate functions are checked
MaxChunkSize == 4
\* the to-mesh queue, which requeues without a uniqueness test, is followed
\* up to this length
MaxMeshQueue == 2

----------------------------------------------------------------------------
(* Voxel packing: lib/constants.js *)

ID_MASK == 255
SOLID_BIT == 32768
OPAQUE_BIT == 16384
OBJECT_BIT == 8192
\* a Uint16Array cell holds its value modulo 2^16
Uint16 == 65536

\* v & b # 0, for a single bit b
HasBit(v, b) == (v \div b) % 2 = 1
\* v | b, for a single bit b
OrBit(v, b) == IF HasBit(v, b) THEN v ELSE v + b
\* v & ID_MASK
MaskID(v) == v % (ID_MASK + 1)

\* tbl[id] as a truth value (undefined for an id outside the table)
Truthy(tbl, id) == id \in DOMAIN tbl /\ tbl[id]

MapPut(m, k, v) == [q \in DOMAIN m \cup {k} |-> IF q = k THEN v ELSE m[q]]
MapDel(m, k) == [q \in DOMAIN m \ {k} |-> m[q]]
EmptyMap == [q \in {} |-> 0]

----------------------------------------------------------------------------
(* Chunk: src/src/lib/chunk.js *)

PaddedCells(size) == (0 .. size + 1) \X (0 .. size + 1) \X (0 .. size + 1)

\* the n-th cell (n from 1) of the scan for i, for j, for k over 0..len-1
ScanCell(n, len) ==
    <<(n - 1) \div (len * len), ((n - 1) \div len) % len, (n - 1) % len>>

\* the place of a cell in that scan
ScanIndex(cell, len) == (cell[1] * len + cell[2]) * len + cell[3]

\* a padded cell outside the unpadded view (atEdge in initData)
AtEdge(cell, size) ==
    \E a \in 1 .. 3 : cell[a] = 0 \/ cell[a] = size + 1

\* ndarray get and set; an array is kept as the map of its non-zero cells
ArrGet(array, cell) == IF cell \in DOMAIN array THEN array[cell] ELSE 0
ArrSet(array, cell, v) ==
    IF v = 0 THEN MapDel(array, cell) ELSE MapPut(array, cell, v)

packID(id) ==
    LET s == IF Truthy(solidLookup, id) THEN OrBit(id, SOLID_BIT) ELSE id
        o == IF Truthy(opaqueLookup, id) THEN OrBit(s, OPAQUE_BIT) ELSE s
    IN  IF Truthy(objectMeshLookup, id) THEN OrBit(o, OBJECT_BIT) ELSE o

isTerrain(id) ==
    IF id = 0 THEN FALSE
    ELSE IF HasBit(id, OBJECT_BIT) THEN HasBit(id, SOLID_BIT)
    ELSE TRUE

\* a callBlockHandler without the test for the chunk's edge padding
callBlockHandlerAnywhere(c, blockID, type, x, y, z) ==
    IF ~(blockID \in DOMAIN blockHandlerLookup) THEN << >>
    ELSE IF ~(type \in blockHandlerLookup[blockID]) THEN << >>
    ELSE << <<type, c.id, <<blockID, c.id[1] * chunkSize + x,
                            c.id[2] * chunkSize + y,
                            c.id[3] * chunkSize + z>> >> >>

\* the calls callBlockHandler makes: <<type, chunk id, <<blockID, wx, wy, wz>>>>
\* for a block with a handler of that type, at an unpadded (x,y,z); the chunk
\* with id (i,j,k) has its origin chunk.x,y,z at (i,j,k) * size
callBlockHandler(c, blockID, type, x, y, z) ==
    IF ~(blockID \in DOMAIN blockHandlerLookup) THEN << >>
    ELSE IF ~(type \in blockHandlerLookup[blockID]) THEN << >>
    ELSE IF x < 0 \/ y < 0 \/ z < 0
            \/ x >= chunkSize \/ y >= chunkSize \/ z >= chunkSize THEN << >>
    ELSE << <<type, c.id, <<blockID, c.id[1] * chunkSize + x,
                            c.id[2] * chunkSize + y,
                            c.id[3] * chunkSize + z>> >> >>

\* new Chunk(noa, id, i, j, k, size): the fields the scheduler and the chunk
\* methods read; the constructor leaves isInvalid unset, which reads as false
NewChunk(id) ==
    [id |-> id, isGenerated |-> FALSE, isInvalid |-> FALSE,
     isEmpty |-> FALSE, isFull |-> FALSE, array |-> EmptyMap,
     terrainDirty |-> FALSE, objectsDirty |-> FALSE,
     objectBlocks |-> EmptyMap]

\* a get that returns the stored value with its flag bits
ChunkGetPacked(c, x, y, z) == ArrGet(c.array, <<x + 1, y + 1, z + 1>>)

\* chunk.get(x, y, z)
ChunkGet(c, x, y, z) == MaskID(ArrGet(c.array, <<x + 1, y + 1, z + 1>>))

\* a chunk.set without its test of the stored id
ChunkSetAlways(c, x, y, z, id) ==
    LET cell == <<x + 1, y + 1, z + 1>>
        oldID == ArrGet(c.array, cell)
        oldIDnum == MaskID(oldID)
        newID == packID(id)
        ob1 == IF HasBit(oldID, OBJECT_BIT)
               THEN MapDel(c.objectBlocks, <<x, y, z>>) ELSE c.objectBlocks
        ob2 == IF HasBit(newID, OBJECT_BIT)
               THEN MapPut(ob1, <<x, y, z>>, id) ELSE ob1
    IN  [c |-> [c EXCEPT
                   !.array = ArrSet(c.array, cell, newID % Uint16),
                   !.objectBlocks = ob2,
                   !.objectsDirty = c.objectsDirty
                       \/ HasBit(oldID, OBJECT_BIT)
                       \/ HasBit(newID, OBJECT_BIT),
                   !.isEmpty = IF newID # 0 THEN FALSE ELSE c.isEmpty,
                   !.isFull = IF ~HasBit(newID, OPAQUE_BIT) THEN FALSE
                              ELSE c.isFull,
                   !.terrainDirty = c.terrainDirty
                       \/ isTerrain(oldID) \/ isTerrain(newID)],
         calls |-> callBlockHandler(c, oldIDnum, "onUnset", x, y, z)
                   \o callBlockHandler(c, id, "onSet", x, y, z)]

\* a chunk.set that leaves isEmpty and isFull as they are
ChunkSetKeepsFlags(c, x, y, z, id) ==
    LET cell == <<x + 1, y + 1, z + 1>>
        oldID == ArrGet(c.array, cell)
        oldIDnum == MaskID(oldID)
        newID == packID(id)
        ob1 == IF HasBit(oldID, OBJECT_BIT)
               THEN MapDel(c.objectBlocks, <<x, y, z>>) ELSE c.objectBlocks
        ob2 == IF HasBit(newID, OBJECT_BIT)
               THEN MapPut(ob1, <<x, y, z>>, id) ELSE ob1
    IN  IF id = oldIDnum THEN [c |-> c, calls |-> << >>]
        ELSE [c |-> [c EXCEPT
                        !.array = ArrSet(c.array, cell, newID % Uint16),
                        !.objectBlocks = ob2,
                        !.objectsDirty = c.objectsDirty
                            \/ HasBit(oldID, OBJECT_BIT)
                            \/ HasBit(newID, OBJECT_BIT),
                        !.terrainDirty = c.terrainDirty
                            \/ isTerrain(oldID) \/ isTerrain(newID)],
              calls |-> callBlockHandler(c, oldIDnum, "onUnset", x, y, z)
                        \o callBlockHandler(c, id, "onSet", x, y, z)]

\* a chunk.set that calls the new id's onSet before the old id's onUnset
ChunkSetOnSetFirst(c, x, y, z, id) ==
    LET cell == <<x + 1, y + 1, z + 1>>
        oldID == ArrGet(c.array, cell)
        oldIDnum == MaskID(oldID)
        newID == packID(id)
        ob1 == IF HasBit(oldID, OBJECT_BIT)
               THEN MapDel(c.objectBlocks, <<x, y, z>>) ELSE c.objectBlocks
        ob2 == IF HasBit(newID, OBJECT_BIT)
               THEN MapPut(ob1, <<x, y, z>>, id) ELSE ob1
    IN  IF id = oldIDnum THEN [c |-> c, calls |-> << >>]
        ELSE [c |-> [c EXCEPT
                        !.array = ArrSet(c.array, cell, newID % Uint16),
                        !.objectBlocks = ob2,
                        !.objectsDirty = c.objectsDirty
                            \/ HasBit(oldID, OBJECT_BIT)
                            \/ HasBit(newID, OBJECT_BIT),
                        !.isEmpty = IF newID # 0 THEN FALSE ELSE c.isEmpty,
                        !.isFull = IF ~HasBit(newID, OPAQUE_BIT) THEN FALSE
                                   ELSE c.isFull,
                        !.terrainDirty = c.terrainDirty
                            \/ isTerrain(oldID) \/ isTerrain(newID)],
              calls |-> callBlockHandler(c, id, "onSet", x, y, z)
                        \o callBlockHandler(c, oldIDnum, "onUnset", x, y, z)]

\* chunk.set(x, y, z, id): the chunk after it and the handler calls it makes
ChunkSet(c, x, y, z, id) ==
    LET cell == <<x + 1, y + 1, z + 1>>
        oldID == ArrGet(c.array, cell)
        oldIDnum == MaskID(oldID)
        newID == packID(id)
        ob1 == IF HasBit(oldID, OBJECT_BIT)
               THEN MapDel(c.objectBlocks, <<x, y, z>>) ELSE c.objectBlocks
        ob2 == IF HasBit(newID, OBJECT_BIT)
               THEN MapPut(ob1, <<x, y, z>>, id) ELSE ob1
    IN  IF id = oldIDnum THEN [c |-> c, calls |-> << >>]
        ELSE [c |-> [c EXCEPT
                        !.array = ArrSet(c.array, cell, newID % Uint16),
                        !.objectBlocks = ob2,
                        !.objectsDirty = c.objectsDirty
                            \/ HasBit(oldID, OBJECT_BIT)
                            \/ HasBit(newID, OBJECT_BIT),
                        !.isEmpty = IF newID # 0 THEN FALSE ELSE c.isEmpty,
                        !.isFull = IF ~HasBit(newID, OPAQUE_BIT) THEN FALSE
                                   ELSE c.isFull,
                        !.terrainDirty = c.terrainDirty
                            \/ isTerrain(oldID) \/ isTerrain(newID)],
              calls |-> callBlockHandler(c, oldIDnum, "onUnset", x, y, z)
                        \o callBlockHandler(c, id, "onSet", x, y, z)]

\* the calls of handler `type' for the given cells of data, in scan order
\* (for i, for j, for k); air has no handler (registerBlock takes ids from
\* 1), so the scan of the unpadded view visits its non-zero cells
RECURSIVE ScanCalls(_, _, _, _)
ScanCalls(c, data, type, cells) ==
    IF cells = {} THEN << >>
    ELSE LET len == chunkSize + 2
             cell == CHOOSE a \in cells :
                        \A b \in cells : ScanIndex(a, len) <= ScanIndex(b, len)
         IN  callBlockHandler(c, MaskID(data[cell]), type,
                              cell[1] - 1, cell[2] - 1, cell[3] - 1)
             \o ScanCalls(c, data, type, cells \ {cell})

InteriorCells(data) == {cell \in DOMAIN data : ~AtEdge(cell, chunkSize)}

\* a scan that looks for opaque cells in the unpadded view only
FullyOpaqueInside(raw) ==
    \A cell \in PaddedCells(chunkSize) :
        \/ AtEdge(cell, chunkSize)
        \/ /\ MaskID(ArrGet(raw, cell)) # 0
           /\ HasBit(packID(MaskID(ArrGet(raw, cell))), OPAQUE_BIT)

\* fullyOpaque and fullyAir at the end of the scan of initData
FullyOpaque(raw) ==
    /\ Cardinality(DOMAIN raw) = (chunkSize + 2) * (chunkSize + 2)
                                     * (chunkSize + 2)
    /\ \A cell \in DOMAIN raw :
           /\ MaskID(raw[cell]) # 0
           /\ HasBit(packID(MaskID(raw[cell])), OPAQUE_BIT)
FullyAir(raw) == \A cell \in DOMAIN raw : MaskID(raw[cell]) = 0

\* chunk.initData(), run on chunk.array = raw
ChunkInitData(c0, raw) ==
    LET c == [c0 EXCEPT !.array = raw]
        len == chunkSize + 2
        cells == DOMAIN raw
        packed == [cell \in cells |->
                      IF MaskID(raw[cell]) = 0 THEN raw[cell]
                      ELSE packID(MaskID(raw[cell])) % Uint16]
        fullyOpaque == FullyOpaque(raw)
        fullyAir == FullyAir(raw)
        loaded == {cell \in InteriorCells(raw) : MaskID(raw[cell]) # 0}
        objCells == {cell \in loaded :
                        HasBit(packID(MaskID(raw[cell])), OBJECT_BIT)}
        added == [key \in {<<cell[1] - 1, cell[2] - 1, cell[3] - 1>> :
                              cell \in objCells}
                     |-> MaskID(raw[<<key[1] + 1, key[2] + 1, key[3] + 1>>])]
        blocks == [key \in DOMAIN c.objectBlocks \cup DOMAIN added |->
                      IF key \in DOMAIN added THEN added[key]
                      ELSE c.objectBlocks[key]]
    IN  [c |-> [c EXCEPT !.array = packed,
                         !.objectBlocks = blocks,
                         !.objectsDirty = c.objectsDirty \/ objCells # {},
                         !.isFull = fullyOpaque,
                         !.isEmpty = fullyAir,
                         !.terrainDirty = ~(fullyOpaque \/ fullyAir),
                         !.isGenerated = TRUE],
         calls |-> ScanCalls(c, raw, "onLoad", loaded)]

\* an updateMeshes that runs the terrain mesher whether or not terrain is dirty
ChunkUpdateMeshesAlways(c) ==
    [c |-> [c EXCEPT !.terrainDirty = FALSE, !.objectsDirty = FALSE],
     calls |-> << <<"meshTerrain", c.id, << >> >> >>
               \o (IF c.objectsDirty
                   THEN << <<"buildObjectMesh", c.id, << >> >> >> ELSE << >>)]

\* chunk.updateMeshes(): the chunk after it and the meshers it runs
ChunkUpdateMeshes(c) ==
    [c |-> [c EXCEPT !.terrainDirty = FALSE, !.objectsDirty = FALSE],
     calls |-> (IF c.terrainDirty
                THEN << <<"meshTerrain", c.id, << >> >> >> ELSE << >>)
               \o (IF c.objectsDirty
                   THEN << <<"buildObjectMesh", c.id, << >> >> >> ELSE << >>)]

\* chunk.dispose(): the handler calls callAllBlockHandlers makes (the chunk
\* object is dropped by its only caller)
ChunkDispose(c) == ScanCalls(c, c.array, "onUnload", InteriorCells(c.array))

----------------------------------------------------------------------------
(* World internals: src/src/lib/world.js *)

\* World._maxChunksPendingCreation
maxChunksPendingCreation == 20

\* the value of _lastPlayerChunkID that is no chunk id (undefined, or '')
NoChunkID == << >>

\* a % b of JavaScript (the sign of the dividend), for b > 0
JsRem(a, b) == IF a >= 0 THEN a % b ELSE 0 - ((0 - a) % b)

\* the constructor's test `cs & cs - 1 === 0', which parses as cs & (cs - 1 === 0)
UsesBitTwiddling(cs) == (IF cs - 1 = 0 THEN cs % 2 ELSE 0) # 0

worldCoordToChunkCoord(coord) ==
    IF UsesBitTwiddling(chunkSize) THEN coord   \* coord >> log2(1)
    ELSE coord \div chunkSize                   \* Math.floor(coord / cs)

\* a chunk index that is the remainder alone, with the sign of the coordinate
worldCoordToChunkIndexRem(coord) == JsRem(coord, chunkSize)

worldCoordToChunkIndex(coord) ==
    IF UsesBitTwiddling(chunkSize) THEN 0       \* coord & (cs - 1), cs = 1
    ELSE JsRem(JsRem(coord, chunkSize) + chunkSize, chunkSize)

getChunkID(i, j, k) == <<i, j, k>>
parseChunkID(id) == <<id[1], id[2], id[3]>>

\* the key (i|0) & 1023 of each coordinate in the chunk hash
HashKey(i, j, k) == <<i % 1024, j % 1024, k % 1024>>

\* whether getChunk(world, i, j, k) is truthy, and the chunk it returns then
hasChunk(w, i, j, k) == HashKey(i, j, k) \in DOMAIN w.hash
getChunk(w, i, j, k) == w.hash[HashKey(i, j, k)]

\* setChunk(world, i, j, k, value), and setChunk(world, i, j, k, 0)
setChunk(w, i, j, k, value) ==
    [w EXCEPT !.hash = MapPut(w.hash, HashKey(i, j, k), value)]
clearChunk(w, i, j, k) ==
    [w EXCEPT !.hash = MapDel(w.hash, HashKey(i, j, k))]

InSeq(id, queue) == \E n \in 1 .. Len(queue) : queue[n] = id

enqueueID(id, queue) == IF InSeq(id, queue) THEN queue ELSE Append(queue, id)

\* splice out the first occurrence of id
unenqueueID(id, queue) ==
    IF ~InSeq(id, queue) THEN queue
    ELSE LET n == CHOOSE m \in 1 .. Len(queue) :
                      queue[m] = id /\ \A q \in 1 .. m - 1 : queue[q] # id
         IN  SubSeq(queue, 1, n - 1) \o SubSeq(queue, n + 1, Len(queue))

\* data reordered by ascending ref; equal keys keep their order (a stable sort)
sortByReferenceArray(data, ref) ==
    LET n == Len(ref)
        rank(a) == Cardinality({b \in 1 .. n :
                       ref[b] < ref[a] \/ (ref[b] = ref[a] /\ b < a)}) + 1
    IN  [p \in 1 .. n |-> data[CHOOSE a \in 1 .. n : rank(a) = p]]

Abs(a) == IF a < 0 THEN 0 - a ELSE a

\* a sort key that is the squared distance
AddQueueKeyEuclid(di, dj, dk) == (di * di + dk * dk) + dj * dj

\* the sort key buildChunkAddQueue gives the chunk at offset (di, dj, dk)
AddQueueKey(di, dj, dk) == (di * di + dk * dk) + Abs(dj)

\* a test of the distance that also drops the chunks at exactly addDistSq
TooFarOrEqual(di, dj, dk, addDistSq) == (di * di + dk * dk) + dj * dj >= addDistSq

\* the test `if (totalDistSq > addDistSq) continue' of buildChunkAddQueue
TooFar(di, dj, dk, addDistSq) == (di * di + dk * dk) + dj * dj > addDistSq

\* buildChunkAddQueue without its test `if (getChunk(world, i, j, k)) continue'
AddCandidatesResident(w, ci, cj, ck) ==
    LET add == chunkAddDistance
        side == 2 * add + 1
        addDistSq == chunkAddDistance * chunkAddDistance
        at(n) == LET o == ScanCell(n, side)
                 IN  <<ci - add + o[1], cj - add + o[2], ck - add + o[3]>>
        keep(c) ==
            LET di == c[1] - ci
                dj == c[2] - cj
                dk == c[3] - ck
            IN  /\ ~TooFar(di, dj, dk, addDistSq)
                /\ ~InSeq(getChunkID(c[1], c[2], c[3]), w.toCreate)
    IN  SelectSeq([n \in 1 .. side * side * side |-> at(n)], keep)

\* the coordinates buildChunkAddQueue keeps, in the order of its three loops
AddCandidates(w, ci, cj, ck) ==
    LET add == chunkAddDistance      \* Math.ceil of a whole number
        side == 2 * add + 1
        addDistSq == chunkAddDistance * chunkAddDistance
        at(n) == LET o == ScanCell(n, side)
                 IN  <<ci - add + o[1], cj - add + o[2], ck - add + o[3]>>
        keep(c) ==
            LET di == c[1] - ci
                dj == c[2] - cj
                dk == c[3] - ck
            IN  /\ ~TooFar(di, dj, dk, addDistSq)
                /\ ~hasChunk(w, c[1], c[2], c[3])
                /\ ~InSeq(getChunkID(c[1], c[2], c[3]), w.toCreate)
    IN  SelectSeq([n \in 1 .. side * side * side |-> at(n)], keep)

buildChunkAddQueue(w, ci, cj, ck) ==
    LET cand == AddCandidates(w, ci, cj, ck)
        queue == [n \in 1 .. Len(cand) |->
                     getChunkID(cand[n][1], cand[n][2], cand[n][3])]
        distArr == [n \in 1 .. Len(cand) |->
                       AddQueueKey(cand[n][1] - ci, cand[n][2] - cj,
                                   cand[n][3] - ck)]
    IN  [w EXCEPT !.toAdd = sortByReferenceArray(queue, distArr)]

\* whether buildChunkRemoveQueue queues an in-memory id, and its sort key
RemoveDistSq(id, ci, cj, ck) ==
    LET loc == parseChunkID(id)
        di == loc[1] - ci
        dj == loc[2] - cj
        dk == loc[3] - ck
    IN  di * di + dj * dj + dk * dk

RemoveQueued(w, id, ci, cj, ck) ==
    LET loc == parseChunkID(id)
        remDistSq == chunkRemoveDistance * chunkRemoveDistance
    IN  IF RemoveDistSq(id, ci, cj, ck) < remDistSq
        THEN getChunk(w, loc[1], loc[2], loc[3]).isInvalid
        ELSE TRUE

RemoveQueueKey(id, ci, cj, ck) ==
    LET distSq == RemoveDistSq(id, ci, cj, ck)
        remDistSq == chunkRemoveDistance * chunkRemoveDistance
    IN  IF distSq < remDistSq THEN distSq * (0 - 1) ELSE distSq

buildChunkRemoveQueue(w, ci, cj, ck) ==
    LET list == w.inMemory
        queued(id) == RemoveQueued(w, id, ci, cj, ck)
        queue == SelectSeq(list, queued)
        distArr == [n \in 1 .. Len(queue) |->
                       RemoveQueueKey(queue[n], ci, cj, ck)]
    IN  [w EXCEPT !.toRemove = sortByReferenceArray(queue, distArr)]

Emit(w, calls) == [w EXCEPT !.log = w.log \o calls]

\* a requestNewChunk that does not note the request as pending
requestNewChunkUntracked(w, id) ==
    LET pos == parseChunkID(id)
        size == chunkSize
        chunk == NewChunk(id)
        w1 == setChunk(w, pos[1], pos[2], pos[3], chunk)
    IN  Emit(w1, << <<"worldDataNeeded", id,
                      <<pos[1] * size - 1, pos[2] * size - 1,
                        pos[3] * size - 1>> >> >>)

\* make a new chunk and emit an event for it to be populated with world data
requestNewChunk(w, id) ==
    LET pos == parseChunkID(id)
        size == chunkSize
        chunk == NewChunk(id)
        w1 == setChunk(w, pos[1], pos[2], pos[3], chunk)
        w2 == [w1 EXCEPT !.toCreate = enqueueID(id, w1.toCreate)]
    IN  Emit(w2, << <<"worldDataNeeded", id,
                      <<pos[1] * size - 1, pos[2] * size - 1,
                        pos[3] * size - 1>> >> >>)

\* a removeChunk that leaves the id in the in-memory list
dropChunkKeepsMemory(w, chunk, i, j, k) ==
    [clearChunk(w, i, j, k) EXCEPT
        !.toMesh = unenqueueID(chunk.id, w.toMesh),
        !.toMeshFirst = unenqueueID(chunk.id, w.toMeshFirst),
        !.last = IF chunk.isInvalid THEN NoChunkID ELSE w.last]

\* the tail of removeChunk: the chunk is dropped from the hash and the queues
dropChunk(w, chunk, i, j, k) ==
    [clearChunk(w, i, j, k) EXCEPT
        !.inMemory = unenqueueID(chunk.id, w.inMemory),
        !.toMesh = unenqueueID(chunk.id, w.toMesh),
        !.toMeshFirst = unenqueueID(chunk.id, w.toMeshFirst),
        !.last = IF chunk.isInvalid THEN NoChunkID ELSE w.last]

\* remove a chunk that wound up in the remove queue
removeChunk(w, i, j, k) ==
    IF ~hasChunk(w, i, j, k)
    THEN Emit(w, << <<"TypeError", <<i, j, k>>, << >> >> >>)
    ELSE dropChunk(Emit(w, << <<"chunkBeingRemoved",
                               getChunk(w, i, j, k).id, << >> >>,
                             <<"dispose", getChunk(w, i, j, k).id, << >> >> >>
                          \o ChunkDispose(getChunk(w, i, j, k))),
                   getChunk(w, i, j, k), i, j, k)

Front(queue) == SubSeq(queue, 1, Len(queue) - 1)
Last(queue) == queue[Len(queue)]

\* a first step of processChunkQueues that reads the last id of the remove
\* queue and leaves it in the queue
processRemoveQueueKeeps(w) ==
    IF w.toRemove # << >>
    THEN removeChunk(w, Last(w.toRemove)[1], Last(w.toRemove)[2],
                     Last(w.toRemove)[3])
    ELSE w

\* the first step of processChunkQueues: remove one chunk, if any is queued
processRemoveQueue(w) ==
    IF w.toRemove # << >>
    THEN removeChunk([w EXCEPT !.toRemove = Front(w.toRemove)],
                     Last(w.toRemove)[1], Last(w.toRemove)[2],
                     Last(w.toRemove)[3])
    ELSE w

\* the rest of processChunkQueues with a throttle that lets one more through
processAddQueueOver(w, rem) ==
    IF Len(w.toCreate) > maxChunksPendingCreation
    THEN [w |-> w, done |-> ~rem]
    ELSE IF w.toAdd # << >>
    THEN [w |-> requestNewChunk([w EXCEPT !.toAdd = Tail(w.toAdd)],
                                Head(w.toAdd)),
          done |-> FALSE]
    ELSE [w |-> w, done |-> ~rem]

\* the rest of processChunkQueues with a request that leaves its id at the
\* head of the to-add queue
processAddQueueKeeping(w, rem) ==
    IF Len(w.toCreate) >= maxChunksPendingCreation
    THEN [w |-> w, done |-> ~rem]
    ELSE IF w.toAdd # << >>
    THEN [w |-> requestNewChunk(w, Head(w.toAdd)), done |-> FALSE]
    ELSE [w |-> w, done |-> ~rem]

\* the rest of processChunkQueues: request one chunk unless too many are
\* pending; rem tells whether the first step found work
processAddQueue(w, rem) ==
    IF Len(w.toCreate) >= maxChunksPendingCreation
    THEN [w |-> w, done |-> ~rem]
    ELSE IF w.toAdd # << >>
    THEN [w |-> requestNewChunk([w EXCEPT !.toAdd = Tail(w.toAdd)],
                                Head(w.toAdd)),
          done |-> FALSE]
    ELSE [w |-> w, done |-> ~rem]

\* run through chunk tracking queues looking for work to do next:
\* the world after it, and what it returns
processChunkQueues(w) ==
    processAddQueue(processRemoveQueue(w), w.toRemove # << >>)

\* a meshing step that forgets the id of a chunk whose data has not arrived
MeshPoppedDropsPending(w, id) ==
    LET arr == parseChunkID(id)
        has == hasChunk(w, arr[1], arr[2], arr[3])
        chunk == getChunk(w, arr[1], arr[2], arr[3])
    IN  IF ~has \/ chunk.isInvalid \/ ~chunk.isGenerated
        THEN [w |-> w, done |-> FALSE]
        ELSE LET r == ChunkUpdateMeshes(chunk)
                 w1 == setChunk(w, arr[1], arr[2], arr[3], r.c)
             IN  [w |-> Emit(w1, << <<"updateMeshes", id, << >> >> >>
                                 \o r.calls
                                 \o << <<"chunkMeshUpdated", id, << >> >> >>),
                  done |-> FALSE]

\* mesh the chunk with this id, as the tail of processMeshingQueues does;
\* a missing chunk is the value 0 of the hash, which reads as not generated
MeshPopped(w, id) ==
    LET arr == parseChunkID(id)
        has == hasChunk(w, arr[1], arr[2], arr[3])
        chunk == getChunk(w, arr[1], arr[2], arr[3])
    IN  IF has /\ chunk.isInvalid THEN [w |-> w, done |-> FALSE]
        ELSE IF ~has \/ ~chunk.isGenerated
        THEN [w |-> [w EXCEPT !.toMesh = <<id>> \o w.toMesh], done |-> FALSE]
        ELSE LET r == ChunkUpdateMeshes(chunk)
                 w1 == setChunk(w, arr[1], arr[2], arr[3], r.c)
             IN  [w |-> Emit(w1, << <<"updateMeshes", id, << >> >> >>
                                 \o r.calls
                                 \o << <<"chunkMeshUpdated", id, << >> >> >>),
                  done |-> FALSE]

\* a meshing step that serves the to-mesh queue before the to-mesh-first queue
processMeshingQueuesBacklog(w, firstOnly) ==
    IF ~firstOnly /\ w.toMesh # << >>
    THEN MeshPopped([w EXCEPT !.toMesh = Front(w.toMesh)], Last(w.toMesh))
    ELSE IF w.toMeshFirst # << >>
    THEN MeshPopped([w EXCEPT !.toMeshFirst = Front(w.toMeshFirst)],
                    Last(w.toMeshFirst))
    ELSE [w |-> w, done |-> TRUE]

\* a meshing step that goes on to the to-mesh queue whatever firstOnly says
processMeshingQueuesAnyQueue(w, firstOnly) ==
    IF w.toMeshFirst # << >>
    THEN MeshPopped([w EXCEPT !.toMeshFirst = Front(w.toMeshFirst)],
                    Last(w.toMeshFirst))
    ELSE IF w.toMesh # << >>
    THEN MeshPopped([w EXCEPT !.toMesh = Front(w.toMesh)], Last(w.toMesh))
    ELSE [w |-> w, done |-> TRUE]

\* similar to above but for chunks waiting to be meshed; a return value of
\* undefined reads as false where it is used
processMeshingQueues(w, firstOnly) ==
    IF w.toMeshFirst # << >>
    THEN MeshPopped([w EXCEPT !.toMeshFirst = Front(w.toMeshFirst)],
                    Last(w.toMeshFirst))
    ELSE IF firstOnly THEN [w |-> w, done |-> TRUE]
    ELSE IF w.toMesh # << >>
    THEN MeshPopped([w EXCEPT !.toMesh = Front(w.toMesh)], Last(w.toMesh))
    ELSE [w |-> w, done |-> TRUE]

\* a _modifyBlockData that does not queue the chunk for meshing
modifyBlockDataUnqueued(w, i, j, k, x, y, z, val, isPadding) ==
    IF ~hasChunk(w, i, j, k) THEN w
    ELSE LET chunk == getChunk(w, i, j, k)
             r == ChunkSet(chunk, x, y, z, val)
             w1 == Emit(setChunk(w, i, j, k, r.c), r.calls)
         IN  IF ~isPadding
             THEN Emit(w1, << <<"chunkChanged", chunk.id, << >> >> >>)
             ELSE w1

\* for a given chunk (i/j/k) and local location (x/y/z), modify one chunk's block
modifyBlockData(w, i, j, k, x, y, z, val, isPadding) ==
    IF ~hasChunk(w, i, j, k) THEN w
    ELSE LET chunk == getChunk(w, i, j, k)
             r == ChunkSet(chunk, x, y, z, val)
             w1 == Emit(setChunk(w, i, j, k, r.c), r.calls)
             w2 == [w1 EXCEPT
                       !.toMeshFirst = enqueueID(chunk.id, w1.toMeshFirst)]
         IN  IF ~isPadding
             THEN Emit(w2, << <<"chunkChanged", chunk.id, << >> >> >>)
             ELSE w2

\* the n-th (from 1) combination <<di, dj, dk>> of the three nested loops
BorderOffsets(size, x, y, z) ==
    LET imin == IF x = 0 THEN 0 - 1 ELSE 0
        imax == IF x = size - 1 THEN 1 ELSE 0
        jmin == IF y = 0 THEN 0 - 1 ELSE 0
        jmax == IF y = size - 1 THEN 1 ELSE 0
        kmin == IF z = 0 THEN 0 - 1 ELSE 0
        kmax == IF z = size - 1 THEN 1 ELSE 0
        nj == jmax - jmin + 1
        nk == kmax - kmin + 1
        total == (imax - imin + 1) * nj * nk
    IN  [n \in 1 .. total |->
            <<imin + (n - 1) \div (nj * nk),
              jmin + (((n - 1) \div nk) % nj),
              kmin + ((n - 1) % nk)>>]

\* the local coordinate with the two sides of the padding exchanged
BorderLocalSwapped(d, x, size) ==
    IF d = 0 THEN x ELSE IF d = 0 - 1 THEN 0 - 1 ELSE size

\* the local coordinate, in the chunk at offset d, of local coordinate x
BorderLocal(d, x, size) ==
    IF d = 0 THEN x ELSE IF d = 0 - 1 THEN size ELSE 0 - 1

RECURSIVE UpdateFrom(_, _, _, _, _, _, _, _, _, _, _)
UpdateFrom(w, offs, n, i, j, k, size, x, y, z, val) ==
    IF n > Len(offs) THEN w
    ELSE LET d == offs[n]
             isPadding == d[1] # 0 \/ d[2] # 0 \/ d[3] # 0
         IN  UpdateFrom(modifyBlockData(w, i + d[1], j + d[2], k + d[3],
                                        BorderLocal(d[1], x, size),
                                        BorderLocal(d[2], y, size),
                                        BorderLocal(d[3], z, size),
                                        val, isPadding),
                        offs, n + 1, i, j, k, size, x, y, z, val)

\* update all chunks that need it (including border chunks with the changed
\* block in their 1-block padding)
updateChunkAndBorders(w, i, j, k, size, x, y, z, val) ==
    UpdateFrom(w, BorderOffsets(size, x, y, z), 1, i, j, k, size, x, y, z, val)

getPlayerChunkCoords ==
    <<worldCoordToChunkCoord(playerPos[1]),
      worldCoordToChunkCoord(playerPos[2]),
      worldCoordToChunkCoord(playerPos[3])>>

----------------------------------------------------------------------------
(* The World as a value, so that a handler's steps compose *)

W == [toAdd |-> chunkIDsToAdd, toRemove |-> chunkIDsToRemove,
      inMemory |-> chunkIDsInMemory, toCreate |-> chunkIDsToCreate,
      toMesh |-> chunkIDsToMesh, toMeshFirst |-> chunkIDsToMeshFirst,
      hash |-> chunkHash, last |-> lastPlayerChunkID,
      loaded |-> playerChunkLoaded, log |-> << >>]

Commit(w) ==
    /\ chunkIDsToAdd' = w.toAdd
    /\ chunkIDsToRemove' = w.toRemove
    /\ chunkIDsInMemory' = w.inMemory
    /\ chunkIDsToCreate' = w.toCreate
    /\ chunkIDsToMesh' = w.toMesh
    /\ chunkIDsToMeshFirst' = w.toMeshFirst
    /\ chunkHash' = w.hash
    /\ lastPlayerChunkID' = w.last
    /\ playerChunkLoaded' = w.loaded
    /\ emitted' = w.log

\* one iteration of the loop of tick: d1 is what processMeshingQueues
\* returned, d2 what the first processChunkQueues returned
tickChunkQueues(d1, d2) ==
    IF ~d2.done
    THEN [w |-> processChunkQueues(d2.w).w,
          done |-> d1.done /\ processChunkQueues(d2.w).done]
    ELSE [w |-> d2.w, done |-> d1.done /\ d2.done]

tickMeshed(d1) == tickChunkQueues(d1, processChunkQueues(d1.w))

TickPass(w) == tickMeshed(processMeshingQueues(w, FALSE))

\* the loop of tick when the clock allows at most n iterations
RECURSIVE TickLoop(_, _)
TickAgain(r, n) == IF r.done THEN r.w ELSE TickLoop(r.w, n - 1)
TickLoop(w, n) == IF n = 0 THEN w ELSE TickAgain(TickPass(w), n)

\* the loop of beforeRender when the clock allows at most n iterations
RECURSIVE RenderLoop(_, _)
RenderAgain(r, n) == IF r.done THEN r.w ELSE RenderLoop(r.w, n - 1)
RenderLoop(w, n) ==
    IF n = 0 THEN w ELSE RenderAgain(processMeshingQueues(w, TRUE), n)

----------------------------------------------------------------------------
(* Operations *)

\* a head of tick that rebuilds the remove queue only when it is empty
tickRebuildKeepsRemoveQueue(w, chunkID, ci, cj, ck) ==
    IF chunkID # w.last
    THEN [(IF w.toRemove = << >>
           THEN buildChunkRemoveQueue(
                    buildChunkAddQueue(
                        Emit(w, << <<"playerEnteredChunk", chunkID,
                                     << >> >> >>),
                        ci, cj, ck),
                    ci, cj, ck)
           ELSE buildChunkAddQueue(
                    Emit(w, << <<"playerEnteredChunk", chunkID, << >> >> >>),
                    ci, cj, ck)) EXCEPT !.last = chunkID]
    ELSE w

\* the head of tick: the queues are rebuilt when the player changed chunks
tickRebuild(w, chunkID, ci, cj, ck) ==
    IF chunkID # w.last
    THEN [buildChunkRemoveQueue(
              buildChunkAddQueue(
                  Emit(w, << <<"playerEnteredChunk", chunkID, << >> >> >>),
                  ci, cj, ck),
              ci, cj, ck) EXCEPT !.last = chunkID]
    ELSE w

\* a tail of tick that takes an invalid chunk for a loaded one
tickEndIgnoringInvalid(w, ci, cj, ck) ==
    [w EXCEPT !.loaded = /\ hasChunk(w, ci, cj, ck)
                         /\ getChunk(w, ci, cj, ck).isGenerated]

\* the tail of tick: playerChunkLoaded is read off the player's chunk
tickEnd(w, ci, cj, ck) ==
    [w EXCEPT !.loaded = /\ hasChunk(w, ci, cj, ck)
                         /\ getChunk(w, ci, cj, ck).isGenerated
                         /\ ~getChunk(w, ci, cj, ck).isInvalid]

\* World.prototype.tick on world w with the player in chunk pos, its loop
\* cut off by the clock after at most n passes
tick(w, pos, n) ==
    tickEnd(TickLoop(tickRebuild(w, getChunkID(pos[1], pos[2], pos[3]),
                                 pos[1], pos[2], pos[3]), n),
            pos[1], pos[2], pos[3])

Tick(n) ==
    /\ Commit(tick(W, getPlayerChunkCoords, n))
    /\ UNCHANGED <<config, registry, playerPos>>

\* beforeRender, its loop cut off by the clock after at most n passes
BeforeRender(n) ==
    /\ Commit(RenderLoop(W, n))
    /\ UNCHANGED <<config, registry, playerPos>>

\* setChunkData without its test of chunk.isInvalid
setChunkDataInvalid(w, id, array) ==
    LET arr == parseChunkID(id)
        chunk == getChunk(w, arr[1], arr[2], arr[3])
        r == ChunkInitData(chunk, array)
        w1 == Emit(setChunk(w, arr[1], arr[2], arr[3], r.c), r.calls)
        w2 == [w1 EXCEPT !.inMemory = enqueueID(id, w1.inMemory),
                         !.toCreate = unenqueueID(id, w1.toCreate)]
        w3 == [w2 EXCEPT !.toMesh = enqueueID(id, w2.toMesh)]
    IN  IF ~hasChunk(w, arr[1], arr[2], arr[3]) THEN w
        ELSE Emit(w3, << <<"chunkAdded", id, << >> >> >>)

\* World.prototype.setChunkData(id, array) on world w
setChunkData(w, id, array) ==
    LET arr == parseChunkID(id)
        chunk == getChunk(w, arr[1], arr[2], arr[3])
        r == ChunkInitData(chunk, array)
        w1 == Emit(setChunk(w, arr[1], arr[2], arr[3], r.c), r.calls)
        w2 == [w1 EXCEPT !.inMemory = enqueueID(id, w1.inMemory),
                         !.toCreate = unenqueueID(id, w1.toCreate)]
        w3 == [w2 EXCEPT !.toMesh = enqueueID(id, w2.toMesh)]
    IN  IF ~hasChunk(w, arr[1], arr[2], arr[3]) THEN w
        ELSE IF chunk.isInvalid THEN w
        ELSE Emit(w3, << <<"chunkAdded", id, << >> >> >>)

SetChunkData(id, array) ==
    /\ Commit(setChunkData(W, id, array))
    /\ UNCHANGED <<config, registry, playerPos>>

RECURSIVE InvalidateFrom(_, _, _)
InvalidateFrom(w, toInval, n) ==
    IF n > Len(toInval) THEN w
    ELSE LET loc == parseChunkID(toInval[n])
             chunk == getChunk(w, loc[1], loc[2], loc[3])
         IN  InvalidateFrom(
                 setChunk(w, loc[1], loc[2], loc[3],
                          [chunk EXCEPT !.isInvalid = TRUE]),
                 toInval, n + 1)

\* World.prototype.invalidateAllChunks
invalidateAllChunks(w) ==
    [InvalidateFrom(w, w.inMemory \o w.toCreate, 1) EXCEPT !.last = NoChunkID]

InvalidateAllChunks ==
    /\ Commit(invalidateAllChunks(W))
    /\ UNCHANGED <<config, registry, playerPos>>

\* World.prototype.setBlockID(val, x, y, z)
setBlockID(w, val, x, y, z) ==
    updateChunkAndBorders(w,
        worldCoordToChunkCoord(x), worldCoordToChunkCoord(y),
        worldCoordToChunkCoord(z), chunkSize,
        worldCoordToChunkIndex(x), worldCoordToChunkIndex(y),
        worldCoordToChunkIndex(z), val)

SetBlockID(val, x, y, z) ==
    /\ Commit(setBlockID(W, val, x, y, z))
    /\ UNCHANGED <<config, registry, playerPos>>

\* World.prototype.getBlockID(x, y, z) on world w
getBlockID(w, x, y, z) ==
    IF ~hasChunk(w, worldCoordToChunkCoord(x), worldCoordToChunkCoord(y),
                 worldCoordToChunkCoord(z)) THEN 0
    ELSE ChunkGet(getChunk(w, worldCoordToChunkCoord(x),
                           worldCoordToChunkCoord(y),
                           worldCoordToChunkCoord(z)),
                  worldCoordToChunkIndex(x), worldCoordToChunkIndex(y),
                  worldCoordToChunkIndex(z))

\* a call of getBlockID: the log holds the chunk coordinates and the local
\* indices it derived, and the id it returned
GetBlockID(x, y, z) ==
    /\ emitted' = << <<"getBlockID",
                       <<worldCoordToChunkCoord(x), worldCoordToChunkCoord(y),
                         worldCoordToChunkCoord(z)>>,
                       <<worldCoordToChunkIndex(x), worldCoordToChunkIndex(y),
                         worldCoordToChunkIndex(z), getBlockID(W, x, y, z)>> >> >>
    /\ UNCHANGED <<config, registry, scheduler, playerPos>>

\* the player entity moves to position p
MovePlayer(p) ==
    /\ p # playerPos
    /\ playerPos' = p
    /\ emitted' = << >>
    /\ UNCHANGED <<config, registry, playerChunkLoaded, chunkIDsToAdd,
                   chunkIDsToRemove, chunkIDsInMemory, chunkIDsToCreate,
                   chunkIDsToMesh, chunkIDsToMeshFirst, chunkHash,
                   lastPlayerChunkID>>

\* Registry.MAX_BLOCK_IDS
MAX_BLOCK_IDS == 255

\* a lookup array after registerBlock(id, ...) stored v at id: the ids from
\* the length of the array up to id - 1 are registered first, as fake blocks
\* with the default options, which store hole
TableSet(tbl, id, hole, v) ==
    [q \in DOMAIN tbl \cup (0 .. id) |->
        IF q = id THEN v ELSE IF q \in DOMAIN tbl THEN tbl[q] ELSE hole]

\* Registry.prototype.registerBlock(id, options); opts holds what the options
\* come to after the defaults: solid, opaque, whether there is a blockMesh,
\* and the names of the handlers given
RegisterBlock(id, opts) ==
    /\ solidLookup' = IF id < 1 \/ id > MAX_BLOCK_IDS THEN solidLookup
                       ELSE TableSet(solidLookup, id, TRUE, opts.solid)
    /\ opaqueLookup' = IF id < 1 \/ id > MAX_BLOCK_IDS THEN opaqueLookup
                        ELSE TableSet(opaqueLookup, id, TRUE, opts.opaque)
    /\ objectMeshLookup' =
           IF id < 1 \/ id > MAX_BLOCK_IDS THEN objectMeshLookup
           ELSE TableSet(objectMeshLookup, id, FALSE, opts.blockMesh)
    /\ blockHandlerLookup' =
           IF id < 1 \/ id > MAX_BLOCK_IDS THEN blockHandlerLookup
           ELSE TableSet(blockHandlerLookup, id, {}, opts.handlers)
    /\ emitted' = << >>
    /\ UNCHANGED <<config, scheduler, playerPos>>

----------------------------------------------------------------------------
(* Initial states *)

\* new Registry(): air and the default block 1; the game then registers
\* block 2, a non-solid see-through object block with all four handlers
InitRegistry ==
    /\ solidLookup = [id \in 0 .. 2 |-> id = 1]
    /\ opaqueLookup = [id \in 0 .. 2 |-> id = 1]
    /\ objectMeshLookup = [id \in 0 .. 2 |-> id = 2]
    /\ blockHandlerLookup =
           [id \in 0 .. 2 |->
               IF id = 2 THEN {"onLoad", "onUnload", "onSet", "onUnset"}
               ELSE {}]

\* new World(noa, {chunkSize: cs, chunkAddDistance: add, chunkRemoveDistance: rem})
\* with the player entity at pos
InitWorld(cs, add, rem, pos) ==
    /\ chunkSize = cs
    /\ chunkAddDistance = add
    /\ chunkRemoveDistance = IF rem < add THEN add ELSE rem
    /\ playerChunkLoaded = FALSE
    /\ chunkIDsToAdd = << >>
    /\ chunkIDsToRemove = << >>
    /\ chunkIDsInMemory = << >>
    /\ chunkIDsToCreate = << >>
    /\ chunkIDsToMesh = << >>
    /\ chunkIDsToMeshFirst = << >>
    /\ chunkHash = EmptyMap
    /\ lastPlayerChunkID = NoChunkID
    /\ playerPos = pos
    /\ emitted = << >>
    /\ InitRegistry

\* the buffers the generator delivers: all air, or one block of id at the
\* unpadded (0,0,0)
AirArray == EmptyMap
OneBlockArray(id) == [cell \in {<<1, 1, 1>>} |-> id]

\* ids with an allocated chunk, and one id that never has one
AllocatedIDs == {chunkHash[key].id : key \in DOMAIN chunkHash}
StrayID == <<0, 7, 0>>

----------------------------------------------------------------------------
(* The scheduler: chunks of 2 voxels, only the player's own chunk is wanted
   (chunkAddDistance 0) and a chunk one away is dropped; the player steps
   between chunk (0,0,0) and chunk (1,0,0), the game sets block 1 at the
   voxel of chunk (0,0,0) that borders chunk (1,0,0), and the generator
   delivers air *)

MeshQueueBound == Len(chunkIDsToMesh') <= MaxMeshQueue

Init == InitWorld(2, 0, 1, <<0, 0, 0>>)

Next ==
    \/ \E n \in 0 .. MaxPasses : Tick(n) /\ MeshQueueBound
    \/ \E n \in 0 .. MaxPasses : BeforeRender(n) /\ MeshQueueBound
    \/ \E id \in AllocatedIDs \cup {StrayID} : SetChunkData(id, AirArray)
    \/ InvalidateAllChunks
    \/ SetBlockID(1, 1, 0, 0)
    \/ \E p \in {<<0, 0, 0>>, <<2, 0, 0>>} : MovePlayer(p)

Spec == Init /\ [][Next]_vars

----------------------------------------------------------------------------
(* Properties of the scheduler *)

IsAllocated(id) == hasChunk(W, id[1], id[2], id[3])
IsInvalid(id) == IsAllocated(id) /\ getChunk(W, id[1], id[2], id[3]).isInvalid
IsPending(id) == InSeq(id, chunkIDsToCreate)

\* C1: in every reachable state no chunk id is both in the to-add queue and
\* in the in-memory list
C1_AddQueueDisjointFromMemory ==
    \A n \in 1 .. Len(chunkIDsToAdd) :
        ~InSeq(chunkIDsToAdd[n], chunkIDsInMemory)

\* a chunk waits in the to-add queue while another one is in memory
C1_Witness ==
    /\ chunkIDsToAdd # << >>
    /\ chunkIDsInMemory # << >>

\* the world without the log of the last handler
Quiet(w) == [w EXCEPT !.log = << >>]

\* a tick that runs at least one pass of its loop would change the world
TickHasWork ==
    \E n \in 1 .. MaxPasses : Quiet(tick(W, getPlayerChunkCoords, n)) # W

\* the generator has a request it can answer with a change to the world
GeneratorHasWork ==
    \E id \in AllocatedIDs :
        IsPending(id) /\ Quiet(setChunkData(W, id, AirArray)) # W

\* C2: every chunk marked invalid, in memory or pending creation, is
\* eventually removed while ticks keep running passes; so once further ticks
\* change nothing, no allocated chunk is invalid
C2_InvalidChunksRemoved ==
    ~TickHasWork => \A id \in AllocatedIDs : ~IsInvalid(id)

\* C3: after invalidateAllChunks, with ticks running and the generator
\* answering every request, the player's chunk is eventually resident,
\* generated and valid again; so once ticks and the generator change nothing,
\* playerChunkLoaded is true
C3_PlayerChunkLoadedAgain ==
    ~(TickHasWork \/ GeneratorHasWork) => playerChunkLoaded

\* C4: setChunkData for an id whose chunk is not allocated or is invalid
\* changes no queue, no chunk and no flag, and emits nothing
C4_DiscardedDataChangesNothing ==
    [][\A id \in AllocatedIDs \cup {StrayID} :
          (~IsAllocated(id) \/ IsInvalid(id)) /\ SetChunkData(id, AirArray)
              => UNCHANGED scheduler /\ emitted' = << >>]_vars

\* data for a chunk invalidated while pending has just been discarded
C4_Witness ==
    /\ \E id \in AllocatedIDs : IsPending(id) /\ IsInvalid(id)
    /\ emitted = << >>

----------------------------------------------------------------------------
(* Streaming: chunkAddDistance 2 puts 33 chunks in the add sphere, more than
   maxChunksPendingCreation; the player stands in chunk (1,-1,0), the game
   invalidates the world at any time, and the generator answers the requests
   for two of the chunks only *)

StreamAnswered == {<<1, 0 - 1, 0>>, <<2, 0 - 1, 0>>}

InitStream == InitWorld(2, 2, 2, <<3, 0 - 1, 0>>)

NextStream ==
    \/ \E n \in 0 .. MaxPasses : Tick(n)
    \/ \E id \in StreamAnswered : IsPending(id) /\ SetChunkData(id, AirArray)
    \/ InvalidateAllChunks

SpecStream == InitStream /\ [][NextStream]_vars

\* the worldDataNeeded requests of a log, in order
Requests(log) ==
    LET isRequest(e) == e[1] = "worldDataNeeded"
    IN  SelectSeq(log, isRequest)

\* C5: the number of chunks awaiting generator data never exceeds
\* maxChunksPendingCreation, and a handler that starts with that many
\* pending issues no worldDataNeeded request
C5_PendingCreationBounded ==
    /\ [](Len(chunkIDsToCreate) <= maxChunksPendingCreation)
    /\ [][Len(chunkIDsToCreate) >= maxChunksPendingCreation
              => Requests(emitted') = << >>]_vars

\* the limit is reached while chunks still wait in the to-add queue
C5_Witness ==
    /\ Len(chunkIDsToCreate) = maxChunksPendingCreation
    /\ chunkIDsToAdd # << >>

\* the last handler was a tick that rebuilt the queues and did nothing else
JustRebuilt ==
    /\ Len(emitted) = 1
    /\ emitted[1][1] = "playerEnteredChunk"

\* the coordinates within chunkAddDistance of chunk c, by squared Euclidean
\* distance, that are neither allocated nor pending
WantedAround(c) ==
    LET reach == chunkAddDistance + 1
        box == (c[1] - reach .. c[1] + reach) \X (c[2] - reach .. c[2] + reach)
                   \X (c[3] - reach .. c[3] + reach)
        distSq(id) == (id[1] - c[1]) * (id[1] - c[1])
                      + (id[2] - c[2]) * (id[2] - c[2])
                      + (id[3] - c[3]) * (id[3] - c[3])
    IN  {id \in box : /\ distSq(id) <= chunkAddDistance * chunkAddDistance
                      /\ ~IsAllocated(id)
                      /\ ~IsPending(id)}

\* C9: right after buildChunkAddQueue for the player's chunk, the to-add queue
\* holds exactly the coordinates within chunkAddDistance (squared Euclidean
\* distance) that are neither allocated nor pending, each once
C9_AddQueueIsSphere ==
    JustRebuilt =>
        /\ {chunkIDsToAdd[n] : n \in 1 .. Len(chunkIDsToAdd)} =
               WantedAround(emitted[1][2])
        /\ Len(chunkIDsToAdd) = Cardinality(WantedAround(emitted[1][2]))

\* the queue was rebuilt while one chunk was in memory and others pending
C9_Witness ==
    /\ JustRebuilt
    /\ chunkIDsToAdd # << >>
    /\ chunkIDsInMemory # << >>
    /\ chunkIDsToCreate # << >>

\* the squared Euclidean distance, and the horizontal squared distance plus
\* the vertical distance, of chunk id from chunk c
EuclidFrom(c, id) ==
    (id[1] - c[1]) * (id[1] - c[1]) + (id[2] - c[2]) * (id[2] - c[2])
        + (id[3] - c[3]) * (id[3] - c[3])
HorizontalFirstFrom(c, id) ==
    (id[1] - c[1]) * (id[1] - c[1]) + (id[3] - c[3]) * (id[3] - c[3])
        + Abs(id[2] - c[2])

\* no request of the log is for a chunk farther, by Dist, than a chunk
\* requested after it or one still waiting
NearestFirst(Dist(_, _), c, log, waiting) ==
    \A n \in 1 .. Len(log) :
        /\ \A m \in n + 1 .. Len(log) : Dist(c, log[n][2]) <= Dist(c, log[m][2])
        /\ \A q \in 1 .. Len(waiting) : Dist(c, log[n][2]) <= Dist(c, waiting[q])

\* C10 as stated: worldDataNeeded requests are issued in non-decreasing
\* squared Euclidean distance to the player's chunk, none while a strictly
\* nearer chunk waits in the to-add queue
C10_RequestsByEuclideanDistance ==
    [][NearestFirst(EuclidFrom, getPlayerChunkCoords, Requests(emitted'),
                    chunkIDsToAdd')]_vars

\* C10 amended: worldDataNeeded requests are issued in non-decreasing order
\* of horizontal squared distance plus vertical distance (di*di + dk*dk +
\* |dj|) to the player's chunk, none while a chunk with a smaller such key
\* waits in the to-add queue
C10_RequestsByAddQueueKey ==
    [][NearestFirst(HorizontalFirstFrom, getPlayerChunkCoords,
                    Requests(emitted'), chunkIDsToAdd')]_vars

\* one tick requested a chunk and then a chunk that is nearer to the player
C10_Witness ==
    \E n \in 1 .. Len(Requests(emitted)) : \E m \in n + 1 .. Len(Requests(emitted)) :
        EuclidFrom(getPlayerChunkCoords, Requests(emitted)[n][2])
            > EuclidFrom(getPlayerChunkCoords, Requests(emitted)[m][2])

----------------------------------------------------------------------------
(* Editing: chunks of 3 voxels, so that a chunk has a voxel off its border;
   chunkAddDistance 2 brings in chunk (0,0,0) and the seven chunks that share
   its corner voxel (0,0,0); the game sets block 1 at that corner voxel and at
   the inner voxel (1,1,1), and the generator answers the requests for two of
   the chunks only *)

EditAnswered == {<<0, 0, 0>>, <<0 - 1, 0, 0>>}
EditVoxels == {<<0, 0, 0>>, <<1, 1, 1>>}

InitEdit == InitWorld(3, 2, 2, <<1, 1, 1>>)

NextEdit ==
    \/ \E n \in 0 .. MaxPasses : Tick(n) /\ MeshQueueBound
    \/ \E id \in EditAnswered : IsPending(id) /\ SetChunkData(id, AirArray)
    \/ \E v \in EditVoxels : SetBlockID(1, v[1], v[2], v[3])

SpecEdit == InitEdit /\ [][NextEdit]_vars

\* the chunk that owns world voxel v, and whether the padded grid of chunk id
\* (world coordinates id * chunkSize - 1 .. id * chunkSize + chunkSize on
\* each axis) contains v
OwnerOf(v) ==
    <<worldCoordToChunkCoord(v[1]), worldCoordToChunkCoord(v[2]),
      worldCoordToChunkCoord(v[3])>>
PaddedGridContains(id, v) ==
    \A a \in 1 .. 3 :
        /\ id[a] * chunkSize - 1 <= v[a]
        /\ v[a] <= id[a] * chunkSize + chunkSize

\* the block id chunk c stores for world voxel v of its padded grid
StoredAt(c, v) ==
    MaskID(ArrGet(c.array, <<v[1] - c.id[1] * chunkSize + 1,
                             v[2] - c.id[2] * chunkSize + 1,
                             v[3] - c.id[3] * chunkSize + 1>>))

\* what setBlockID(val, v) must have done to the allocated chunk id
EditReached(id, val, v) ==
    IF PaddedGridContains(id, v)
    THEN /\ StoredAt(getChunk(W, id[1], id[2], id[3]), v)' = val
         /\ InSeq(id, chunkIDsToMeshFirst')
    ELSE /\ getChunk(W, id[1], id[2], id[3])' = getChunk(W, id[1], id[2], id[3])
         /\ InSeq(id, chunkIDsToMeshFirst') = InSeq(id, chunkIDsToMeshFirst)

\* C6: after setBlockID(val, x, y, z) every allocated chunk whose padded grid
\* contains the voxel stores val in the cell of that voxel and is in the
\* to-mesh-first queue; every other chunk keeps its cells and is not
\* enqueued, so a voxel off the chunk border touches its own chunk only
C6_EditReachesBorderingChunks ==
    [][\A v \in EditVoxels :
          SetBlockID(1, v[1], v[2], v[3])
              => \A id \in AllocatedIDs : EditReached(id, 1, v)]_vars

\* the eight chunks around the corner voxel are allocated, each stores the
\* block, and each is in the to-mesh-first queue after the edit
C6_Witness ==
    /\ emitted # << >>
    /\ emitted[Len(emitted)][1] = "chunkChanged"
    /\ \A id \in (0 - 1 .. 0) \X (0 - 1 .. 0) \X (0 - 1 .. 0) :
           /\ IsAllocated(id)
           /\ StoredAt(getChunk(W, id[1], id[2], id[3]), <<0, 0, 0>>) = 1
           /\ InSeq(id, chunkIDsToMeshFirst)

\* the chunks for which a log holds a chunkChanged event, in order
ChangedChunks(log) ==
    LET isChange(e) == e[1] = "chunkChanged"
        changes == SelectSeq(log, isChange)
    IN  [n \in 1 .. Len(changes) |-> changes[n][2]]

\* C7: setBlockID emits chunkChanged once, for the chunk that owns the voxel,
\* when that chunk is allocated and the stored id differs from the new one,
\* and emits no chunkChanged otherwise
C7_ChunkChangedOnlyOnChange ==
    [][\A v \in EditVoxels :
          SetBlockID(1, v[1], v[2], v[3])
              => ChangedChunks(emitted') =
                     IF /\ IsAllocated(OwnerOf(v))
                        /\ StoredAt(getChunk(W, OwnerOf(v)[1], OwnerOf(v)[2],
                                             OwnerOf(v)[3]), v) # 1
                     THEN <<OwnerOf(v)>>
                     ELSE << >>]_vars

\* the ids in a queue
Members(queue) == {queue[n] : n \in 1 .. Len(queue)}

\* the places of a log where chunk id is meshed
MeshedAt(log, id) ==
    {n \in 1 .. Len(log) : log[n][1] = "updateMeshes" /\ log[n][2] = id}

\* chunk a is meshed in the log before the first meshing of chunk b
MeshedBefore(log, a, b) ==
    \E n \in MeshedAt(log, a) : \A m \in MeshedAt(log, b) : n < m

\* C8 as stated: whenever a handler meshes a chunk that waited in the to-mesh
\* queue only, it has meshed every chunk of the to-mesh-first queue before
C8_EditedChunksMeshedFirst ==
    [][\A a \in Members(chunkIDsToMeshFirst) :
          \A b \in Members(chunkIDsToMesh) \ Members(chunkIDsToMeshFirst) :
              MeshedAt(emitted', b) # {} => MeshedBefore(emitted', a, b)]_vars

\* a chunk that a meshing step can mesh, and that is still there afterwards
Meshable(id) ==
    /\ IsAllocated(id)
    /\ getChunk(W, id[1], id[2], id[3]).isGenerated
    /\ ~getChunk(W, id[1], id[2], id[3]).isInvalid
    /\ IsAllocated(id)'

\* C8 amended: whenever a handler meshes a chunk that waited in the to-mesh
\* queue only, it has meshed before every chunk of the to-mesh-first queue
\* that is generated, not invalid, and not removed by the handler
C8_GeneratedEditedChunksMeshedFirst ==
    [][\A a \in Members(chunkIDsToMeshFirst) :
          \A b \in Members(chunkIDsToMesh) \ Members(chunkIDsToMeshFirst) :
              (MeshedAt(emitted', b) # {} /\ Meshable(a))
                  => MeshedBefore(emitted', a, b)]_vars

\* one tick meshed the edited chunk (0,0,0) and then the chunk (-1,0,0)
C8_Witness ==
    /\ IsAllocated(<<0, 0, 0>>)
    /\ StoredAt(getChunk(W, 0, 0, 0), <<1, 1, 1>>) = 1
    /\ MeshedAt(emitted, <<0 - 1, 0, 0>>) # {}
    /\ MeshedBefore(emitted, <<0, 0, 0>>, <<0 - 1, 0, 0>>)

----------------------------------------------------------------------------
(* More properties of the scheduler (specification Spec) *)

\* the in-memory ids farther from chunk c than chunkRemoveDistance, or invalid
BeyondOrInvalid(c) ==
    {id \in Members(chunkIDsInMemory) :
        \/ RemoveDistSq(id, c[1], c[2], c[3])
               > chunkRemoveDistance * chunkRemoveDistance
        \/ IsInvalid(id)}

\* C11: right after buildChunkRemoveQueue the to-remove queue holds exactly
\* the in-memory ids whose distance to the player's chunk exceeds
\* chunkRemoveDistance or whose chunk is invalid; a valid chunk at exactly
\* chunkRemoveDistance is not queued
C11_RemoveQueueBeyondDistance ==
    JustRebuilt => Members(chunkIDsToRemove) = BeyondOrInvalid(emitted[1][2])

----------------------------------------------------------------------------
(* The end-to-end scenario: chunks of 4 voxels, chunkAddDistance 1, the
   player at the world origin; the generator answers the requests for the
   player's chunk and for two neighbours, with air or with one block *)

ScenarioAnswered == {<<0, 0, 0>>, <<1, 0, 0>>, <<0, 1, 0>>}
ScenarioArrays == {AirArray, OneBlockArray(1)}

InitScenario == InitWorld(4, 1, 1, <<0, 0, 0>>)

NextScenario ==
    \/ \E n \in 0 .. MaxPasses : Tick(n)
    \/ \E id \in ScenarioAnswered : \E array \in ScenarioArrays :
           IsPending(id) /\ SetChunkData(id, array)

SpecScenario == InitScenario /\ [][NextScenario]_vars

\* the add queue was built around chunk (0,0,0) and every id of it was taken
AddQueueExhausted ==
    /\ lastPlayerChunkID = <<0, 0, 0>>
    /\ chunkIDsToAdd = << >>

\* chunk (0,0,0) and the six chunks that share a face with it
OriginAndFaceNeighbours ==
    {id \in (0 - 1 .. 1) \X (0 - 1 .. 1) \X (0 - 1 .. 1) :
        Abs(id[1]) + Abs(id[2]) + Abs(id[3]) <= 1}

\* the ids a log requests
Requested(log) == {Requests(log)[n][2] : n \in 1 .. Len(Requests(log))}

\* C12 as stated: with chunkSize 4, chunkAddDistance 1 and the player at the
\* origin, processing the add queue to exhaustion requests exactly one chunk,
\* 0|0|0
C12_OneChunkRequested ==
    AddQueueExhausted => AllocatedIDs = {<<0, 0, 0>>}

\* C12 amended: processing the add queue to exhaustion requests exactly seven
\* chunks, each once: 0|0|0 first, then the six chunks that share a face with
\* it (squared distance 1 <= chunkAddDistance squared)
C12_SevenChunksRequested ==
    /\ [](AddQueueExhausted => AllocatedIDs = OriginAndFaceNeighbours)
    /\ [][/\ Requested(emitted') = AllocatedIDs' \ AllocatedIDs
          /\ Len(Requests(emitted')) = Cardinality(Requested(emitted'))
          /\ (AllocatedIDs = {} /\ Requests(emitted') # << >>)
                 => Requests(emitted')[1][2] = <<0, 0, 0>>]_vars

\* the add queue is exhausted and seven chunks are allocated
C12_Witness ==
    /\ AddQueueExhausted
    /\ Cardinality(AllocatedIDs) = 7

\* chunk id is generated from an all-air buffer and valid
AirChunk(id) ==
    /\ IsAllocated(id)
    /\ getChunk(W, id[1], id[2], id[3]).isGenerated
    /\ ~getChunk(W, id[1], id[2], id[3]).isInvalid
    /\ getChunk(W, id[1], id[2], id[3]).isEmpty

\* the ids for which a log runs a mesher
MesherRuns(log) ==
    {log[n][2] : n \in {m \in 1 .. Len(log) :
                           log[m][1] \in {"meshTerrain", "buildObjectMesh"}}}

\* C13 as stated: once setChunkData has delivered an all-air buffer for the
\* player's chunk, the next tick sets playerChunkLoaded, the chunk id is never
\* in to-mesh or to-mesh-first, and no updateMeshes call or chunkMeshUpdated
\* event is made for it
C13_AirChunkNeverQueuedForMeshing ==
    [][/\ ((\E n \in 0 .. MaxPasses : Tick(n))
               /\ AirChunk(getPlayerChunkCoords)) => playerChunkLoaded'
       /\ AirChunk(getPlayerChunkCoords)' =>
              /\ ~InSeq(getPlayerChunkCoords, chunkIDsToMesh')
              /\ ~InSeq(getPlayerChunkCoords, chunkIDsToMeshFirst')
              /\ MeshedAt(emitted', getPlayerChunkCoords) = {}]_vars

\* C13 amended: once setChunkData has delivered an all-air buffer for the
\* player's chunk, the next tick sets playerChunkLoaded; setChunkData enqueues
\* the chunk id in to-mesh, and the updateMeshes call made when it is popped
\* runs no mesher (no terrain mesh, no object mesh) for the all-air chunk
C13_AirChunkLoadedWithoutMesherRun ==
    [][/\ ((\E n \in 0 .. MaxPasses : Tick(n))
               /\ AirChunk(getPlayerChunkCoords)) => playerChunkLoaded'
       /\ (IsPending(getPlayerChunkCoords)
               /\ SetChunkData(getPlayerChunkCoords, AirArray))
              => InSeq(getPlayerChunkCoords, chunkIDsToMesh')
       /\ \A id \in MesherRuns(emitted') : ~AirChunk(id)]_vars

\* a tick popped the all-air player's chunk, called updateMeshes for it and
\* left playerChunkLoaded set
C13_Witness ==
    /\ AirChunk(getPlayerChunkCoords)
    /\ playerChunkLoaded
    /\ MeshedAt(emitted, getPlayerChunkCoords) # {}

----------------------------------------------------------------------------
(* Properties of every tick and of every request (specification Spec) *)

\* the chunk that holds the player is allocated, generated and valid
PlayerChunkReady ==
    /\ IsAllocated(getPlayerChunkCoords)
    /\ getChunk(W, getPlayerChunkCoords[1], getPlayerChunkCoords[2],
                getPlayerChunkCoords[3]).isGenerated
    /\ ~IsInvalid(getPlayerChunkCoords)

\* C14: at the end of every tick playerChunkLoaded is true if and only if the
\* chunk that holds the player is allocated, generated and not invalid
C14_PlayerChunkLoadedIffReady ==
    [][(\E n \in 0 .. MaxPasses : Tick(n))
           => (playerChunkLoaded' <=> PlayerChunkReady')]_vars

\* a tick has just found the player in a chunk that is not ready, while
\* another chunk is in memory, and left playerChunkLoaded false
C14_Witness ==
    /\ emitted # << >>
    /\ emitted[1][1] = "playerEnteredChunk"
    /\ ~playerChunkLoaded
    /\ chunkIDsInMemory # << >>

\* the places of a log where chunk id is requested, and where it is removed
RequestedAt(log, id) ==
    {n \in 1 .. Len(log) : log[n][1] = "worldDataNeeded" /\ log[n][2] = id}
RemovedAt(log, id) ==
    {n \in 1 .. Len(log) : log[n][1] = "chunkBeingRemoved" /\ log[n][2] = id}

\* C15: a chunk is resolvable by coordinate lookup from the moment it is
\* requested, for as long as it is pending or in memory, and worldDataNeeded
\* is emitted once per allocation: never for an id that is pending, and for
\* an allocated id only after the handler removed its chunk
C15_OneRequestPerAllocation ==
    /\ [](\A id \in Members(chunkIDsToCreate) \cup Members(chunkIDsInMemory) :
             IsAllocated(id))
    /\ [][\A id \in Requested(emitted') :
             /\ IsAllocated(id)'
             /\ IsPending(id)'
             /\ Cardinality(RequestedAt(emitted', id)) = 1
             /\ ~IsPending(id)
             /\ IsAllocated(id) =>
                    \E m \in RemovedAt(emitted', id) :
                        \A n \in RequestedAt(emitted', id) : m < n]_vars

\* one tick removed the chunk the player left and requested the chunk the
\* player entered
C15_Witness ==
    /\ \E n \in 1 .. Len(emitted) : emitted[n][1] = "chunkBeingRemoved"
    /\ Requested(emitted) # {}

----------------------------------------------------------------------------
(* Blocks: one chunk of 2 voxels (chunkAddDistance 0) that the generator
   fills from a set of buffers, some of them with packed values; the game
   sets registered blocks at two of its voxels, registers block MaxBlockID,
   and registers block 1 again as a fluid *)

\* the largest block id the game registers
MaxBlockID == 3

\* options of registerBlock: none given, and {fluid: true}
DefaultBlock ==
    [solid |-> TRUE, opaque |-> TRUE, blockMesh |-> FALSE, handlers |-> {}]
FluidBlock ==
    [solid |-> FALSE, opaque |-> FALSE, blockMesh |-> FALSE, handlers |-> {}]

\* the calls of registerBlock the game makes: a new block, block 1 again as
\* a fluid, and id 0, which registerBlock refuses
Registrations ==
    {<<MaxBlockID, DefaultBlock>>, <<1, FluidBlock>>, <<0, DefaultBlock>>}

\* a buffer with value v in every cell, padding included
FullArray(v) == [cell \in PaddedCells(chunkSize) |-> v]

\* the buffers of the generator: air, one block, full of block 1, full of
\* block 1 but for one padding cell, and two with packed values: air with
\* the solid bit, and block 1 with the object bit
BlockArrays ==
    {AirArray, OneBlockArray(1), FullArray(1),
     [cell \in PaddedCells(chunkSize) \ {<<0, 0, 0>>} |-> 1],
     OneBlockArray(SOLID_BIT), OneBlockArray(OBJECT_BIT + 1)}

BlockVoxels == {<<0, 0, 0>>, <<1, 1, 1>>}

InitBlocks == InitWorld(2, 0, 1, <<0, 0, 0>>)

NextBlocks ==
    \/ \E n \in 0 .. MaxPasses : Tick(n) /\ MeshQueueBound
    \/ \E array \in BlockArrays :
           IsPending(<<0, 0, 0>>) /\ SetChunkData(<<0, 0, 0>>, array)
    \/ \E val \in DOMAIN solidLookup : \E v \in BlockVoxels :
           SetBlockID(val, v[1], v[2], v[3])
    \/ \E r \in Registrations : RegisterBlock(r[1], r[2])

SpecBlocks == InitBlocks /\ [][NextBlocks]_vars

\* the chunk with id, which is allocated
ChunkOf(id) == getChunk(W, id[1], id[2], id[3])

\* the unpadded coordinates of a chunk
InBounds == (0 .. chunkSize - 1) \X (0 .. chunkSize - 1) \X (0 .. chunkSize - 1)

\* C16: for every chunk, every in-bounds local coordinate and every
\* registered block id, 0 included, chunk.set(x, y, z, id) followed by
\* chunk.get(x, y, z) returns id, whatever was stored before and whatever
\* flag bits the registry gives the id
C16_SetThenGetReturnsID ==
    \A c \in AllocatedIDs : \A p \in InBounds : \A id \in DOMAIN solidLookup :
        ChunkGet(ChunkSet(ChunkOf(c), p[1], p[2], p[3], id).c,
                 p[1], p[2], p[3]) = id

\* the chunk stores, at a voxel that was edited, a solid opaque block with
\* its two flag bits, and block 1 has since become a fluid
C16_Witness ==
    /\ IsAllocated(<<0, 0, 0>>)
    /\ ArrGet(ChunkOf(<<0, 0, 0>>).array, <<2, 2, 2>>)
           = MaxBlockID + SOLID_BIT + OPAQUE_BIT
    /\ ~solidLookup[1]

\* the last handler was setChunkData for chunk id, which ran initData
JustInitialised(id) ==
    /\ emitted # << >>
    /\ emitted[Len(emitted)] = <<"chunkAdded", id, << >> >>

\* every cell of the padded grid of chunk c holds an opaque block, and every
\* cell holds id 0
EveryCellOpaque(c) ==
    \A cell \in PaddedCells(chunkSize) :
        Truthy(opaqueLookup, MaskID(ArrGet(c.array, cell)))
EveryCellAir(c) ==
    \A cell \in PaddedCells(chunkSize) : MaskID(ArrGet(c.array, cell)) = 0

\* C17: initData sets isFull iff every cell of the padded grid is opaque,
\* isEmpty iff every cell has id 0, _terrainDirty to not (isFull or isEmpty)
\* and isGenerated to true; an all-zero grid gives isEmpty and not isFull, a
\* grid full of one opaque block gives isFull and not isEmpty, and neither
\* is dirty
C17_InitDataFlags ==
    \A id \in AllocatedIDs :
        JustInitialised(id) =>
            /\ ChunkOf(id).isFull <=> EveryCellOpaque(ChunkOf(id))
            /\ ChunkOf(id).isEmpty <=> EveryCellAir(ChunkOf(id))
            /\ ChunkOf(id).terrainDirty
                   <=> ~(ChunkOf(id).isFull \/ ChunkOf(id).isEmpty)
            /\ ChunkOf(id).isGenerated
            /\ ~(ChunkOf(id).isFull /\ ChunkOf(id).isEmpty)

\* initData has just run on a grid full of the opaque block 1
C17_Witness ==
    /\ JustInitialised(<<0, 0, 0>>)
    /\ ChunkOf(<<0, 0, 0>>).isFull
    /\ ~ChunkOf(<<0, 0, 0>>).terrainDirty

\* the flag bits of a stored value are those the registry gives its id now
FlagsMatchRegistry(v) ==
    /\ HasBit(v, SOLID_BIT) <=> Truthy(solidLookup, MaskID(v))
    /\ HasBit(v, OPAQUE_BIT) <=> Truthy(opaqueLookup, MaskID(v))
    /\ HasBit(v, OBJECT_BIT) <=> Truthy(objectMeshLookup, MaskID(v))

\* C18: in every reachable state the SOLID, OPAQUE and OBJECT bits of every
\* cell, interior or padding, of every generated chunk equal the current
\* registry lookups for the stored block id
C18_FlagBitsMatchRegistry ==
    \A id \in AllocatedIDs :
        ChunkOf(id).isGenerated =>
            \A cell \in PaddedCells(chunkSize) :
                FlagsMatchRegistry(ArrGet(ChunkOf(id).array, cell))

----------------------------------------------------------------------------
(* Handlers: chunks of 2 voxels, chunkAddDistance 1, so that chunk (0,0,0)
   and the three chunks that hold its voxel (0,0,0) in their padding are
   wanted; block 2 has the four handlers; the generator answers for chunk
   (0,0,0), with air or with block 2 at the unpadded (0,0,0) and in the
   padding cell at x = size; the game sets block 2 and air at voxel (0,0,0)
   and invalidates the world, which disposes the chunks in memory *)

HandlerAnswered == {<<0, 0, 0>>}
HandlerArrays == {AirArray, [cell \in {<<1, 1, 1>>, <<3, 1, 1>>} |-> 2]}

InitHandlers == InitWorld(2, 1, 1, <<0, 0, 0>>)

NextHandlers ==
    \/ \E n \in 0 .. MaxPasses : Tick(n) /\ MeshQueueBound
    \/ \E id \in HandlerAnswered : \E array \in HandlerArrays :
           IsPending(id) /\ SetChunkData(id, array)
    \/ \E val \in {0, 2} : SetBlockID(val, 0, 0, 0)
    \/ InvalidateAllChunks

SpecHandlers == InitHandlers /\ [][NextHandlers]_vars

\* the places of a log where a block handler of one of the types is called
HandlerCalls(log, types) == {n \in 1 .. Len(log) : log[n][1] \in types}

\* C19: no onLoad, onUnload, onSet or onUnset handler is called for a voxel
\* in a chunk's padding: every call a handler makes, from initData, dispose
\* or an edit, is for a voxel the calling chunk owns, and one edit calls
\* onUnset at most once and onSet at most once
C19_NoHandlerInPadding ==
    /\ \A n \in HandlerCalls(emitted, {"onLoad", "onUnload", "onSet", "onUnset"}) :
           OwnerOf(<<emitted[n][3][2], emitted[n][3][3], emitted[n][3][4]>>)
               = emitted[n][2]
    /\ Cardinality(HandlerCalls(emitted, {"onSet"})) <= 1
    /\ Cardinality(HandlerCalls(emitted, {"onUnset"})) <= 1

\* an edit has just put air where chunk (0,0,0) and the padding of the three
\* chunks around held block 2, and called onUnset once
C19_Witness ==
    /\ HandlerCalls(emitted, {"onUnset"}) # {}
    /\ \A id \in {<<0, 0, 0>>, <<0 - 1, 0, 0>>, <<0, 0 - 1, 0>>, <<0, 0, 0 - 1>>} :
           IsAllocated(id) /\ InSeq(id, chunkIDsToMeshFirst)

----------------------------------------------------------------------------
(* The greedy mesher: src/src/lib/terrainMesher.js. A quad is the record of
   what one pass of the inner loop pushes on its submesh: the material id,
   its four vertices, the occlusion levels that scale their colours, the
   normal its four vertices share, and its six indices; uvs are left out. *)

\* registry.getBlockFaceMaterial(blockId, dir) for the registry of
\* InitRegistry: registerBlock calls getMaterialId with the registry as an
\* extra first argument, which gives every block with a material the id 2
\* and a block without one no id, which a mask stores as 0
getBlockFaceMaterial(blockId, dir) == IF blockId = 1 THEN 2 ELSE 0

\* a getFaceDir that gives the face to the block on the other side
getFaceDirReversed(id0, id1) ==
    IF id0 = id1 THEN 0
    ELSE IF HasBit(id0, OPAQUE_BIT) /\ HasBit(id1, OPAQUE_BIT) THEN 0
    ELSE IF HasBit(id0, OPAQUE_BIT) THEN 0 - 1
    ELSE IF HasBit(id1, OPAQUE_BIT) THEN 1
    ELSE 0

\* a getFaceDir that takes only air, and no object block, for open space
getFaceDirAirOnly(id0, id1) ==
    IF id0 = id1 THEN 0
    ELSE IF HasBit(id0, OPAQUE_BIT) /\ HasBit(id1, OPAQUE_BIT) THEN 0
    ELSE IF HasBit(id0, OPAQUE_BIT) THEN 1
    ELSE IF HasBit(id1, OPAQUE_BIT) THEN 0 - 1
    ELSE IF id1 = 0 THEN 1
    ELSE IF id0 = 0 THEN 0 - 1
    ELSE 0

getFaceDir(id0, id1) ==
    IF id0 = id1 THEN 0
    ELSE IF HasBit(id0, OPAQUE_BIT) /\ HasBit(id1, OPAQUE_BIT) THEN 0
    ELSE IF HasBit(id0, OPAQUE_BIT) THEN 1
    ELSE IF HasBit(id1, OPAQUE_BIT) THEN 0 - 1
    ELSE IF id1 = 0 \/ HasBit(id1, OBJECT_BIT) THEN 1
    ELSE IF id0 = 0 \/ HasBit(id0, OBJECT_BIT) THEN 0 - 1
    ELSE 0

\* the triple with a on axis d, b on axis u = (d + 1) % 3 and c on axis
\* v = (d + 2) % 3 (axes from 0)
OnAxes(d, a, b, c) ==
    [t \in 1 .. 3 |-> IF t = d + 1 THEN a
                      ELSE IF t = ((d + 1) % 3) + 1 THEN b ELSE c]

\* arrT.get(i, j, k): the transposed, unpadded view of the padded array; an
\* index of -1 or of the size reads the padding
TransposedGet(arr, d, i, j, k) == ArrGet(arr, OnAxes(d, i + 1, j + 1, k + 1))

\* data.get(i, j, k) & solidBit
SolidAt(arr, d, i, j, k) == HasBit(TransposedGet(arr, d, i, j, k), SOLID_BIT)

\* an occlusion of the sides that counts from 0
SideOcclusionFromZero(arr, d, ipos, j, k, dj, dk) ==
    (IF SolidAt(arr, d, ipos, j + dj, k) THEN 1 ELSE 0)
      + (IF SolidAt(arr, d, ipos, j, k + dk) THEN 1 ELSE 0)

\* the occlusion of the vertex towards (dj, dk) after the four tests of the
\* sides: 1, and 1 more for each obstructed side next to it
SideOcclusion(arr, d, ipos, j, k, dj, dk) ==
    1 + (IF SolidAt(arr, d, ipos, j + dj, k) THEN 1 ELSE 0)
      + (IF SolidAt(arr, d, ipos, j, k + dk) THEN 1 ELSE 0)

\* a11 << 6 | a10 << 4 | a01 << 2 | a00, for the level a(dj, dk) of each vertex
PackLevels(a(_, _)) ==
    a(1, 1) * 64 + a(1, 0 - 1) * 16 + a(0 - 1, 1) * 4 + a(0 - 1, 0 - 1)

\* packAOMask(data, ipos, ineg, j, k): AO packing with reverse AO on corners
packAOMask(arr, d, ipos, ineg, j, k) ==
    LET facingSolid == SolidAt(arr, d, ipos, j, k)
        side(dj, dk) == SideOcclusion(arr, d, ipos, j, k, dj, dk)
        level(dj, dk) ==
            IF facingSolid
            THEN IF side(dj, dk) = 3 \/ SolidAt(arr, d, ipos, j + dj, k + dk)
                 THEN 3 ELSE 2
            ELSE IF side(dj, dk) # 1 THEN side(dj, dk)
            ELSE IF SolidAt(arr, d, ipos, j + dj, k + dk) THEN 2
            ELSE IF \/ ~SolidAt(arr, d, ineg, j, k + dk)
                    \/ ~SolidAt(arr, d, ineg, j + dj, k)
                    \/ ~SolidAt(arr, d, ineg, j + dj, k + dk) THEN 0
            ELSE 1
    IN  PackLevels(level)

\* packAOMaskNoReverse(data, ipos, ineg, j, k): the simpler version used when
\* skipping reverse AO
packAOMaskNoReverse(arr, d, ipos, ineg, j, k) ==
    LET facingSolid == SolidAt(arr, d, ipos, j, k)
        side(dj, dk) == SideOcclusion(arr, d, ipos, j, k, dj, dk)
        level(dj, dk) ==
            IF facingSolid
            THEN IF side(dj, dk) = 3 \/ SolidAt(arr, d, ipos, j + dj, k + dk)
                 THEN 3 ELSE 2
            ELSE IF side(dj, dk) = 1 /\ SolidAt(arr, d, ipos, j + dj, k + dk)
            THEN 2
            ELSE side(dj, dk)
    IN  PackLevels(level)

\* the values of aoPackFcn in GreedyMesher.mesh: none when doAO is false,
\* packAOMaskNoReverse when revAoVal === aoValues[0], else packAOMask
AOPackFcns == {"none", "packAOMask", "packAOMaskNoReverse"}

\* unpackAOMask(aomask, jpos, kpos)
unpackAOMask(aomask, jpos, kpos) ==
    LET offset == IF jpos = 1 THEN (IF kpos = 1 THEN 6 ELSE 4)
                  ELSE (IF kpos = 1 THEN 2 ELSE 0)
    IN  (aomask \div (2 ^ offset)) % 4

\* the levels pushMeshColors gives the four vertices, in the order they are
\* pushed (ao00, ao10, ao11, ao01), and the triangle direction it returns;
\* pushMeshColors_noAO pushes the base colour alone and returns true
pushMeshColors(ao) ==
    LET ao00 == unpackAOMask(ao, 0, 0)
        ao10 == unpackAOMask(ao, 1, 0)
        ao11 == unpackAOMask(ao, 1, 1)
        ao01 == unpackAOMask(ao, 0, 1)
    IN  [levels |-> <<ao00, ao10, ao11, ao01>>,
         triDir |-> IF ao00 = ao11
                    THEN (IF ao01 = ao10 THEN ao01 = 2 ELSE TRUE)
                    ELSE (IF ao01 = ao10 THEN FALSE
                          ELSE ao00 + ao11 > ao01 + ao10)]
pushMeshColors_noAO == [levels |-> << >>, triDir |-> TRUE]

\* the masks after constructMeshMasks for plane i of axis d: r.mask and
\* r.aomask; an entry without a face keeps the values it had
constructMeshMasks(r, arr, i, d, len, aoPackFcn) ==
    LET id0(n) == TransposedGet(arr, d, i - 1, n % len, n \div len)
        id1(n) == TransposedGet(arr, d, i, n % len, n \div len)
        faceDir(n) == getFaceDir(id0(n), id1(n))
        ipos(n) == IF faceDir(n) > 0 THEN i ELSE i - 1
        ineg(n) == IF faceDir(n) > 0 THEN i - 1 ELSE i
    IN  [r EXCEPT
            !.mask = [n \in 0 .. len * len - 1 |->
                IF faceDir(n) = 0 THEN r.mask[n]
                ELSE IF faceDir(n) > 0
                THEN getBlockFaceMaterial(MaskID(id0(n)), d * 2)
                ELSE 0 - getBlockFaceMaterial(MaskID(id1(n)), d * 2 + 1)],
            !.aomask = [n \in 0 .. len * len - 1 |->
                IF faceDir(n) = 0 \/ aoPackFcn = "none" THEN r.aomask[n]
                ELSE IF aoPackFcn = "packAOMask"
                THEN packAOMask(arr, d, ipos(n), ineg(n), n % len, n \div len)
                ELSE packAOMaskNoReverse(arr, d, ipos(n), ineg(n), n % len,
                                         n \div len)]]

\* maskCompare and maskCompare_noAO
maskCompare(index, mask, maskVal, aomask, aoVal) ==
    maskVal = mask[index] /\ aoVal = aomask[index]
maskCompare_noAO(index, mask, maskVal, aomask, aoVal) == maskVal = mask[index]

\* maskCompareFcn, chosen by doAO
maskCompareFcn(doAO, index, mask, maskVal, aomask, aoVal) ==
    IF doAO THEN maskCompare(index, mask, maskVal, aomask, aoVal)
    ELSE maskCompare_noAO(index, mask, maskVal, aomask, aoVal)

\* a width that does not grow (greediness disabled)
QuadWidthOne(r, n, len, j, doAO) == 1

\* the width and the height of the area with the same mask and aomask values
\* as entry n
QuadWidth(r, n, len, j, doAO) ==
    CHOOSE w \in 1 .. len - j :
        /\ \/ w = len - j
           \/ ~maskCompareFcn(doAO, n + w, r.mask, r.mask[n], r.aomask,
                              r.aomask[n])
        /\ \A q \in 1 .. w - 1 :
               maskCompareFcn(doAO, n + q, r.mask, r.mask[n], r.aomask,
                              r.aomask[n])
QuadHeight(r, n, len, k, w, doAO) ==
    CHOOSE h \in 1 .. len - k :
        /\ \/ h = len - k
           \/ \E m \in 0 .. w - 1 :
                  ~maskCompareFcn(doAO, n + m + h * len, r.mask, r.mask[n],
                                  r.aomask, r.aomask[n])
        /\ \A q \in 1 .. h - 1 : \A m \in 0 .. w - 1 :
               maskCompareFcn(doAO, n + m + q * len, r.mask, r.mask[n],
                              r.aomask, r.aomask[n])

\* what the inner loop pushes for the quad at (i, j, k) of axis d, w by h,
\* when its submesh already holds vs vertices; col is what meshColorFcn gave
Quad(i, d, j, k, w, h, maskVal, vs, col) ==
    LET x == OnAxes(d, i, j, k)
        du == OnAxes(d, 0, w, 0)
        dv == OnAxes(d, 0, 0, h)
        dir == IF maskVal > 0 THEN 1 ELSE 0 - 1
    IN  [matID |-> Abs(maskVal),
         positions |-> << <<x[1], x[2], x[3]>>,
                          <<x[1] + du[1], x[2] + du[2], x[3] + du[3]>>,
                          <<x[1] + du[1] + dv[1], x[2] + du[2] + dv[2],
                            x[3] + du[3] + dv[3]>>,
                          <<x[1] + dv[1], x[2] + dv[2], x[3] + dv[3]>> >>,
         levels |-> col.levels,
         indices |-> IF maskVal < 0
                     THEN (IF col.triDir
                           THEN <<vs, vs + 1, vs + 2, vs, vs + 2, vs + 3>>
                           ELSE <<vs + 1, vs + 2, vs + 3, vs, vs + 1, vs + 3>>)
                     ELSE (IF col.triDir
                           THEN <<vs, vs + 2, vs + 1, vs, vs + 3, vs + 2>>
                           ELSE <<vs + 3, vs + 1, vs, vs + 3, vs + 2, vs + 1>>),
         normal |-> <<IF d = 0 THEN dir ELSE 0, IF d = 1 THEN dir ELSE 0,
                      IF d = 2 THEN dir ELSE 0>>]

\* the vertices the submesh of material matID holds
SubmeshVertices(quads, matID) ==
    4 * Cardinality({q \in 1 .. Len(quads) : quads[q].matID = matID})

\* the mask with the area of a quad zeroed out
ZeroedOut(mask, n, len, w, h) ==
    [q \in DOMAIN mask |->
        IF \E hx \in 0 .. h - 1 : \E wx \in 0 .. w - 1 : q = n + wx + hx * len
        THEN 0 ELSE mask[q]]

\* constructMeshDataFromMasks from entry (j, k) on: r.quads with the quads of
\* plane i of axis d added, and the masks it leaves
RECURSIVE constructMeshDataFromMasks(_, _, _, _, _, _, _)
constructMeshDataFromMasks(r, i, d, len, j, k, doAO) ==
    IF k >= len THEN r
    ELSE IF j >= len
    THEN constructMeshDataFromMasks(r, i, d, len, 0, k + 1, doAO)
    ELSE IF r.mask[k * len + j] = 0
    THEN constructMeshDataFromMasks(r, i, d, len, j + 1, k, doAO)
    ELSE LET n == k * len + j
             w == QuadWidth(r, n, len, j, doAO)
             h == QuadHeight(r, n, len, k, w, doAO)
             col == IF doAO THEN pushMeshColors(r.aomask[n])
                    ELSE pushMeshColors_noAO
         IN  constructMeshDataFromMasks(
                 [r EXCEPT
                     !.mask = ZeroedOut(r.mask, n, len, w, h),
                     !.quads = Append(r.quads,
                         Quad(i, d, j, k, w, h, r.mask[n],
                              SubmeshVertices(r.quads, Abs(r.mask[n])), col))],
                 i, d, len, j + w, k, doAO)

\* the sweep of GreedyMesher.mesh from its step-th plane on: axis
\* d = step \div len, plane i = step % len, so that i runs over 0 .. len0
\* with len0 = len - 1
RECURSIVE meshSweep(_, _, _, _, _, _)
meshSweep(r, arr, len, step, last, aoPackFcn) ==
    IF step > last THEN r.quads
    ELSE meshSweep(
             constructMeshDataFromMasks(
                 constructMeshMasks(r, arr, step % len, step \div len, len,
                                    aoPackFcn),
                 step % len, step \div len, len, 0, 0, aoPackFcn # "none"),
             arr, len, step + 1, last, aoPackFcn)

\* GreedyMesher.mesh(arr, ...): the quads of all submeshes, in the order they
\* are pushed
mesh(arr, size, aoPackFcn) ==
    meshSweep([mask |-> [n \in 0 .. size * size - 1 |-> 0],
               aomask |-> [n \in 0 .. size * size - 1 |-> 0],
               quads |-> << >>],
              arr, size, 0, 3 * size - 1, aoPackFcn)

\* terrainMesher.meshChunk(chunk, ...) for the chunk with id, with the AO
\* packing the rendering options select
MeshChunk(id, aoPackFcn) ==
    /\ emitted' = << <<"meshChunk", id,
                       mesh(ChunkOf(id).array, chunkSize, aoPackFcn),
                       aoPackFcn>> >>
    /\ UNCHANGED <<config, registry, scheduler, playerPos>>

----------------------------------------------------------------------------
(* Meshing: one chunk of 3 voxels (chunkAddDistance 0), which the generator
   fills with air, with block 1 at one voxel, at any of the 27 places, with
   block 1 at two voxels side by side, or with a slab of block 1, one voxel
   thick, of any extent and at any place of the chunk; the chunk is meshed by
   the tick and by calls of meshChunk with each AO packing *)

SingleVoxelArray(p) == [cell \in {<<p[1] + 1, p[2] + 1, p[3] + 1>>} |-> 1]

\* the slabs of a chunk of 3: one voxel thick at layer l of axis t (from 1),
\* n voxels from a on the next axis and m voxels from b on the one after
Slabs ==
    {s \in [t : 1 .. 3, l : 0 .. 2, a : 0 .. 2, n : 1 .. 3, b : 0 .. 2,
            m : 1 .. 3] : s.a + s.n <= 3 /\ s.b + s.m <= 3}

\* the padded cells of a slab, and the buffer that holds block 1 in them
SlabCells(s) ==
    {<<OnAxes(s.t - 1, s.l + 1, jj + 1, kk + 1)[1],
       OnAxes(s.t - 1, s.l + 1, jj + 1, kk + 1)[2],
       OnAxes(s.t - 1, s.l + 1, jj + 1, kk + 1)[3]>> :
        jj \in s.a .. s.a + s.n - 1, kk \in s.b .. s.b + s.m - 1}
SlabArray(s) == [cell \in SlabCells(s) |-> 1]

MesherArrays ==
    {AirArray, [cell \in {<<1, 1, 1>>, <<2, 1, 1>>} |-> 1]}
        \cup {SingleVoxelArray(p) : p \in (0 .. 2) \X (0 .. 2) \X (0 .. 2)}
        \cup {SlabArray(s) : s \in Slabs}

InitMesher == InitWorld(3, 0, 1, <<0, 0, 0>>)

NextMesher ==
    \/ \E n \in 0 .. MaxPasses : Tick(n)
    \/ \E array \in MesherArrays :
           IsPending(<<0, 0, 0>>) /\ SetChunkData(<<0, 0, 0>>, array)
    \/ \E id \in AllocatedIDs : \E aoPackFcn \in AOPackFcns :
           MeshChunk(id, aoPackFcn)

SpecMesher == InitMesher /\ [][NextMesher]_vars

\* the last handler was meshChunk for the generated chunk (0,0,0), whose only
\* non-air cell, padding included, is the solid opaque block 1 at the
\* unpadded p
MeshedSingleVoxel(p) ==
    /\ emitted # << >>
    /\ emitted[1][1] = "meshChunk"
    /\ ChunkOf(<<0, 0, 0>>).isGenerated
    /\ ChunkOf(<<0, 0, 0>>).array =
           [cell \in {<<p[1] + 1, p[2] + 1, p[3] + 1>>} |->
               1 + SOLID_BIT + OPAQUE_BIT]

\* the face of the unit cube at p that lies in the plane at `plane' of axis
\* t (from 1), with the unit normal of sign s along that axis
Face(p, t, plane, s) ==
    [corners |-> {c \in (p[1] .. p[1] + 1) \X (p[2] .. p[2] + 1)
                          \X (p[3] .. p[3] + 1) : c[t] = plane},
     normal |-> <<IF t = 1 THEN s ELSE 0, IF t = 2 THEN s ELSE 0,
                  IF t = 3 THEN s ELSE 0>>]

\* the six faces of the voxel at p with their outward normals, and those of
\* them that lie below the last plane the sweep visits on their axis
SixFaces(p) ==
    {Face(p, t, p[t], 0 - 1) : t \in 1 .. 3}
        \cup {Face(p, t, p[t] + 1, 1) : t \in 1 .. 3}
FacesInSweep(p) == {f \in SixFaces(p) : \A c \in f.corners : \A t \in 1 .. 3 :
                       f.normal[t] = 0 \/ c[t] <= chunkSize - 1}

\* the quads are one per face of `faces', each with four vertices at the
\* corners of its face, six indices into them, and the normal of the face
QuadsAre(quads, faces) ==
    /\ Len(quads) = Cardinality(faces)
    /\ {[corners |-> {quads[q].positions[a] : a \in 1 .. 4},
         normal |-> quads[q].normal] : q \in 1 .. Len(quads)} = faces
    /\ \A q \in 1 .. Len(quads) :
           /\ Len(quads[q].positions) = 4
           /\ Len(quads[q].indices) = 6
           /\ {quads[q].indices[a] : a \in 1 .. 6} = 4 * (q - 1) .. 4 * q - 1

MeshedSlab(s) ==
    /\ emitted # << >>
    /\ emitted[1][1] = "meshChunk"
    /\ ChunkOf(<<0, 0, 0>>).isGenerated
    /\ ChunkOf(<<0, 0, 0>>).array =
           [cell \in SlabCells(s) |-> 1 + SOLID_BIT + OPAQUE_BIT]

\* the large faces of slab s that lie in a plane the sweep visits: the plane
\* of each on the axis of the slab, and the sign of its outward normal
LargeFaces(s) ==
    {f \in {<<s.l, 0 - 1>>, <<s.l + 1, 1>>} : f[1] <= chunkSize - 1}

\* the quads in the plane of the large face f of slab s, and the four
\* corners of that face
FaceQuads(quads, s, f) ==
    {q \in 1 .. Len(quads) :
        /\ quads[q].normal[s.t] = f[2]
        /\ \A c \in 1 .. 4 : quads[q].positions[c][s.t] = f[1]}
FaceCorners(s, f) ==
    {<<OnAxes(s.t - 1, f[1], jj, kk)[1], OnAxes(s.t - 1, f[1], jj, kk)[2],
       OnAxes(s.t - 1, f[1], jj, kk)[3]>> :
        jj \in {s.a, s.a + s.n}, kk \in {s.b, s.b + s.m}}

\* the large face f of slab s is one quad, n by m
OneMergedQuad(quads, s, f) ==
    /\ Cardinality(FaceQuads(quads, s, f)) = 1
    /\ \A q \in FaceQuads(quads, s, f) :
           {quads[q].positions[c] : c \in 1 .. 4} = FaceCorners(s, f)

\* C21 as stated: for an N x M x 1 slab of identical solid opaque voxels
\* surrounded by air the greedy mesher emits exactly one merged quad of size
\* N x M for the large exposed face, for all N, M >= 1 that fit in the chunk
\* and in each AO configuration (off, on without reverse AO, on with it)
C21_SlabOneMergedQuad ==
    \A s \in Slabs :
        MeshedSlab(s) =>
            \A f \in LargeFaces(s) : OneMergedQuad(emitted[1][3], s, f)

\* C21 amended: the mesher emits exactly one merged quad of size N x M for a
\* large exposed face with AO off, with AO on without reverse AO, and with
\* reverse AO when N = 1 or M = 1; with reverse AO and N, M >= 2 the vertices
\* at the rim of the slab get level 0 and the others level 1, the AO values
\* of the cells differ, and the face is split into more than one quad
C21_SlabMergedUnlessReverseAO ==
    \A s \in Slabs :
        MeshedSlab(s) =>
            \A f \in LargeFaces(s) :
                IF emitted[1][4] = "packAOMask" /\ s.n >= 2 /\ s.m >= 2
                THEN Cardinality(FaceQuads(emitted[1][3], s, f)) > 1
                ELSE OneMergedQuad(emitted[1][3], s, f)

\* meshChunk without reverse AO has just merged both large faces of a slab
\* of 3 by 3 voxels in the middle layer of the chunk
C21_Witness ==
    /\ MeshedSlab([t |-> 2, l |-> 1, a |-> 0, n |-> 3, b |-> 0, m |-> 3])
    /\ emitted[1][4] = "packAOMaskNoReverse"
    /\ OneMergedQuad(emitted[1][3],
                     [t |-> 2, l |-> 1, a |-> 0, n |-> 3, b |-> 0, m |-> 3],
                     <<1, 0 - 1>>)
    /\ OneMergedQuad(emitted[1][3],
                     [t |-> 2, l |-> 1, a |-> 0, n |-> 3, b |-> 0, m |-> 3],
                     <<2, 1>>)

\* the faces of the planes the sweep visits, <<d, i, j, k, ipos, ineg>>, of
\* array arr that face open space with no solid block at the four side and
\* four diagonal sampling positions
OpenFaces(arr) ==
    {f \in {<<d, i, j, k,
              IF getFaceDir(TransposedGet(arr, d, i - 1, j, k),
                            TransposedGet(arr, d, i, j, k)) > 0
              THEN i ELSE i - 1,
              IF getFaceDir(TransposedGet(arr, d, i - 1, j, k),
                            TransposedGet(arr, d, i, j, k)) > 0
              THEN i - 1 ELSE i>> :
                d \in 0 .. 2, i \in 0 .. chunkSize - 1,
                j \in 0 .. chunkSize - 1, k \in 0 .. chunkSize - 1} :
        /\ getFaceDir(TransposedGet(arr, f[1], f[2] - 1, f[3], f[4]),
                      TransposedGet(arr, f[1], f[2], f[3], f[4])) # 0
        /\ \A dj \in 0 - 1 .. 1 : \A dk \in 0 - 1 .. 1 :
               ~SolidAt(arr, f[1], f[5], f[3] + dj, f[4] + dk)}

\* level 1 at all four vertices, packed
FlatAO == 64 + 16 + 4 + 1

\* C22 as stated: in both AO packing variants and for every sweep axis and
\* face sign, a face facing open space whose four side and four diagonal
\* sampling positions are all non-solid gets AO level 1 at all four vertices
C22_OpenFaceFlatInBothVariants ==
    \A id \in AllocatedIDs : \A f \in OpenFaces(ChunkOf(id).array) :
        /\ packAOMaskNoReverse(ChunkOf(id).array, f[1], f[5], f[6], f[3], f[4])
               = FlatAO
        /\ packAOMask(ChunkOf(id).array, f[1], f[5], f[6], f[3], f[4]) = FlatAO

\* the three blocks behind the vertex towards (dj, dk) of face f, on the
\* side the face does not point to, are all solid
BackedVertex(arr, f, dj, dk) ==
    /\ SolidAt(arr, f[1], f[6], f[3], f[4] + dk)
    /\ SolidAt(arr, f[1], f[6], f[3] + dj, f[4])
    /\ SolidAt(arr, f[1], f[6], f[3] + dj, f[4] + dk)

\* C22 amended: for every sweep axis and face sign, such a face gets level 1
\* at all four vertices from packAOMaskNoReverse; from packAOMask a vertex
\* gets level 1 only if the three blocks behind it (side, side and diagonal
\* on the side the face does not point to) are all solid, and the reverse AO
\* level 0 otherwise
C22_OpenFaceFlatWithoutReverse ==
    \A id \in AllocatedIDs : \A f \in OpenFaces(ChunkOf(id).array) :
        /\ packAOMaskNoReverse(ChunkOf(id).array, f[1], f[5], f[6], f[3], f[4])
               = FlatAO
        /\ \A jpos \in 0 .. 1 : \A kpos \in 0 .. 1 :
               unpackAOMask(packAOMask(ChunkOf(id).array, f[1], f[5], f[6],
                                       f[3], f[4]), jpos, kpos)
                   = IF BackedVertex(ChunkOf(id).array, f, 2 * jpos - 1,
                                     2 * kpos - 1)
                     THEN 1 ELSE 0

\* meshChunk with reverse AO has just given the middle voxel of a slab of 3
\* by 3 voxels a quad of its own with level 1 at its four vertices, and
\* other quads with level 0 at some vertex
C22_Witness ==
    /\ emitted # << >>
    /\ emitted[1][1] = "meshChunk"
    /\ emitted[1][4] = "packAOMask"
    /\ \E q \in 1 .. Len(emitted[1][3]) :
           emitted[1][3][q].levels = <<1, 1, 1, 1>>
    /\ \E q \in 1 .. Len(emitted[1][3]) :
           \E c \in 1 .. 4 : emitted[1][3][q].levels[c] = 0

----------------------------------------------------------------------------
(* Coordinates: worlds of every chunkSize from 1 to MaxChunkSize, powers of
   two or not, with chunkAddDistance 0 and the player at x = -1, so that the
   one chunk wanted is chunk (-1,0,0); the game sets and gets blocks along
   the x axis, on both sides of the origin *)

\* the coordinates the game edits and reads: those of the largest chunk
\* (-1,0,0) and of its padding; and the coordinates the functions are
\* checked on
Coords == (0 - MaxChunkSize - 1) .. 0
WideCoords == (0 - 3 * MaxChunkSize) .. (3 * MaxChunkSize)

InitCoords ==
    \E cs \in 1 .. MaxChunkSize : InitWorld(cs, 0, 0, <<0 - 1, 0, 0>>)

NextCoords ==
    \/ \E n \in 0 .. MaxPasses : Tick(n) /\ MeshQueueBound
    \/ \E id \in AllocatedIDs : IsPending(id) /\ SetChunkData(id, AirArray)
    \/ \E val \in 0 .. 1 : \E x \in Coords : SetBlockID(val, x, 0, 0)
    \/ \E x \in Coords : GetBlockID(x, 0, 0)

SpecCoords == InitCoords /\ [][NextCoords]_vars

\* C23: for every positive integer chunkSize, power of two or not, and every
\* integer world coordinate c, negative ones included, the chunk coordinate
\* q and the local index r that getBlockID and setBlockID derive satisfy
\* c = q * chunkSize + r with 0 <= r < chunkSize
C23_ChunkCoordAndIndex ==
    \A c \in WideCoords :
        /\ c = worldCoordToChunkCoord(c) * chunkSize + worldCoordToChunkIndex(c)
        /\ 0 <= worldCoordToChunkIndex(c)
        /\ worldCoordToChunkIndex(c) < chunkSize

\* with chunks of 3 voxels, getBlockID(-1, 0, 0) has just found in chunk
\* (-1,0,0), at local index 2, the block that setBlockID(1, -1, 0, 0) stored
C23_Witness ==
    /\ chunkSize = 3
    /\ emitted = << <<"getBlockID", <<0 - 1, 0, 0>>, <<2, 0, 0, 1>> >> >>

----------------------------------------------------------------------------
(* Properties of the render pass and of removal (specification Spec) *)

\* sequence a is the start of sequence b, and a is the end of b
IsPrefix(a, b) == Len(a) <= Len(b) /\ SubSeq(b, 1, Len(a)) = a
IsSuffix(a, b) ==
    Len(a) <= Len(b) /\ SubSeq(b, Len(b) - Len(a) + 1, Len(b)) = a

\* the step is a call of beforeRender
RenderStep == \E n \in 0 .. MaxPasses : BeforeRender(n)

\* the queues and flags of the streaming side of the scheduler
streaming == <<chunkIDsToAdd, chunkIDsToRemove, chunkIDsToCreate,
               chunkIDsInMemory, lastPlayerChunkID, playerChunkLoaded>>

\* C24 as stated: beforeRender services only the high-priority mesh queue:
\* it leaves to-mesh, to-add, to-remove, to-create, in-memory and the chunk
\* store (the chunks allocated) unchanged and only removes ids from
\* to-mesh-first
C24_RenderLeavesToMeshUnchanged ==
    [][RenderStep =>
          /\ UNCHANGED streaming
          /\ UNCHANGED chunkIDsToMesh
          /\ AllocatedIDs' = AllocatedIDs
          /\ IsPrefix(chunkIDsToMeshFirst', chunkIDsToMeshFirst)]_vars

\* C24 amended: beforeRender takes ids from the to-mesh-first queue only: it
\* leaves to-add, to-remove, to-create and in-memory unchanged, allocates and
\* removes no chunk (it changes a chunk only by clearing the dirty flags of
\* one it meshes), only removes ids from the end of to-mesh-first, and
\* changes to-mesh only by putting at its front the ids it took from
\* to-mesh-first whose chunk is not generated yet
C24_RenderTakesFromMeshFirstOnly ==
    [][RenderStep =>
          /\ UNCHANGED streaming
          /\ DOMAIN chunkHash' = DOMAIN chunkHash
          /\ \A key \in DOMAIN chunkHash :
                 chunkHash'[key] \in
                     {chunkHash[key],
                      [chunkHash[key] EXCEPT !.terrainDirty = FALSE,
                                             !.objectsDirty = FALSE]}
          /\ IsPrefix(chunkIDsToMeshFirst', chunkIDsToMeshFirst)
          /\ IsSuffix(chunkIDsToMesh, chunkIDsToMesh')
          /\ \A n \in 1 .. Len(chunkIDsToMesh') - Len(chunkIDsToMesh) :
                 /\ InSeq(chunkIDsToMesh'[n], chunkIDsToMeshFirst)
                 /\ ~InSeq(chunkIDsToMesh'[n], chunkIDsToMeshFirst')
                 /\ ~ChunkOf(chunkIDsToMesh'[n]).isGenerated]_vars

\* the edited chunk (0,0,0), whose data has not arrived, was taken from
\* to-mesh-first and waits in to-mesh
C24_Witness ==
    /\ IsAllocated(<<0, 0, 0>>)
    /\ ~ChunkOf(<<0, 0, 0>>).isGenerated
    /\ StoredAt(ChunkOf(<<0, 0, 0>>), <<1, 0, 0>>) = 1
    /\ InSeq(<<0, 0, 0>>, chunkIDsToMesh)
    /\ chunkIDsToMeshFirst = << >>
    /\ emitted = << >>

----------------------------------------------------------------------------
(* Removal: chunks of 2 voxels, chunkAddDistance 0 and chunkRemoveDistance 3;
   the player steps along the x axis through the chunks (0,0,0) to (3,0,0),
   so that up to three chunks stay in memory behind the player; the game
   invalidates the world at any time and the generator answers every
   request with air *)

RemovalPositions == {<<0, 0, 0>>, <<2, 0, 0>>, <<4, 0, 0>>, <<6, 0, 0>>}

InitRemoval == InitWorld(2, 0, 3, <<0, 0, 0>>)

NextRemoval ==
    \/ \E n \in 0 .. MaxPasses : Tick(n) /\ MeshQueueBound
    \/ \E id \in AllocatedIDs : IsPending(id) /\ SetChunkData(id, AirArray)
    \/ InvalidateAllChunks
    \/ \E p \in RemovalPositions : MovePlayer(p)

SpecRemoval == InitRemoval /\ [][NextRemoval]_vars

\* the places of a log where a chunk is removed
Removals(log) == {n \in 1 .. Len(log) : log[n][1] = "chunkBeingRemoved"}

\* C25: invalid chunks tear down ahead of merely-distant ones: whenever the
\* to-remove queue holds both chunks marked invalid and valid chunks that
\* are only beyond chunkRemoveDistance, removal processing disposes every
\* invalid chunk before any merely-distant chunk; so a handler that removes
\* a valid chunk removes no invalid chunk after it and leaves no invalid
\* chunk in the to-remove queue
C25_InvalidChunksRemovedFirst ==
    [][\A n \in Removals(emitted') :
          ~IsInvalid(emitted'[n][2]) =>
              /\ \A m \in Removals(emitted') :
                     m > n => ~IsInvalid(emitted'[m][2])
              /\ \A q \in Members(chunkIDsToRemove') : ~IsInvalid(q)']_vars

----------------------------------------------------------------------------
(* Meshing of chunks whose data arrives late (specification Spec) *)

\* a tick whose loop has the time for all the passes the model follows
FullTick == Tick(MaxPasses) /\ MeshQueueBound

\* the engine keeps calling tick, and tick keeps finding the time
TicksKeepRunning == []<><<FullTick>>_vars

\* the id the next meshing step pops, inside a one-element sequence
NextPopped ==
    IF chunkIDsToMeshFirst # << >>
    THEN <<Last(chunkIDsToMeshFirst)>>
    ELSE IF chunkIDsToMesh # << >> THEN <<Last(chunkIDsToMesh)>> ELSE << >>

\* the to-mesh queue once a meshing step has popped an id and put it back
Requeued(id) ==
    IF chunkIDsToMeshFirst # << >> THEN <<id>> \o chunkIDsToMesh
    ELSE <<id>> \o Front(chunkIDsToMesh)

\* the next meshing step pops the id of a chunk whose data has not arrived
PopsPending(id) ==
    /\ NextPopped = <<id>>
    /\ IsAllocated(id)
    /\ ~ChunkOf(id).isGenerated

\* a meshing step that pops a pending chunk calls nothing, leaves the chunks
\* alone and puts the id at the front of to-mesh
PendingIsRequeued ==
    \A id \in AllocatedIDs :
        PopsPending(id) /\ ~IsInvalid(id) =>
            LET r == processMeshingQueues(W, FALSE).w
            IN  /\ r.log = << >>
                /\ r.hash = chunkHash
                /\ r.toMesh = Requeued(id)
                /\ InSeq(id, r.toMesh)

\* every chunk a step calls updateMeshes on was generated and not invalid
MeshesOnlyValidGenerated ==
    \A id \in Members(chunkIDsToMesh) \cup Members(chunkIDsToMeshFirst) :
        MeshedAt(emitted', id) # {} =>
            /\ IsAllocated(id)
            /\ ChunkOf(id).isGenerated
            /\ ~IsInvalid(id)

\* the ids a step calls updateMeshes on waited in one of the two mesh queues
MeshesOnlyQueued ==
    \A n \in 1 .. Len(emitted') :
        emitted'[n][1] = "updateMeshes" =>
            emitted'[n][2] \in
                Members(chunkIDsToMesh) \cup Members(chunkIDsToMeshFirst)

\* C26 as stated, its second part, in the form a finite run can refute: a
\* chunk whose data setChunkData has delivered is eventually meshed, so no
\* step takes the id of a generated chunk out of to-mesh without meshing it
C26_DeliveredChunkLeavesQueueMeshed ==
    [][\A id \in {<<0, 0, 0>>, <<1, 0, 0>>} :
           /\ IsAllocated(id)
           /\ ChunkOf(id).isGenerated
           /\ InSeq(id, chunkIDsToMesh)
           /\ ~InSeq(id, chunkIDsToMesh')
           => MeshedAt(emitted', id) # {}]_vars

\* C26 amended: a meshing step that pops the id of an allocated, not invalid
\* chunk whose data has not arrived calls nothing and puts the id back into
\* to-mesh; updateMeshes is only ever called on a chunk that is generated and
\* not invalid; and while ticks keep running, a chunk whose data setChunkData
\* has delivered is eventually meshed, or marked invalid, or removed
C26_PendingRequeuedDeliveredMeshedUnlessInvalid ==
    /\ []PendingIsRequeued
    /\ [][MeshesOnlyValidGenerated /\ MeshesOnlyQueued]_vars
    /\ (TicksKeepRunning =>
            \A id \in {<<0, 0, 0>>, <<1, 0, 0>>} :
                JustInitialised(id) ~>
                    \/ MeshedAt(emitted, id) # {}
                    \/ ~IsAllocated(id)
                    \/ IsInvalid(id))

\* a pending chunk has just been popped by a tick and put back into to-mesh,
\* and waits there for its data
C26_Witness ==
    /\ \E id \in AllocatedIDs :
           /\ ~ChunkOf(id).isGenerated
           /\ ~IsInvalid(id)
           /\ InSeq(id, chunkIDsToMesh)
    /\ chunkIDsToMeshFirst = << >>

----------------------------------------------------------------------------
(* Properties of chunk.set (specification SpecBlocks) *)

\* the local coordinates chunk.set is called with: the unpadded view and the
\* padding around it
PaddedBounds ==
    ((0 - 1) .. chunkSize) \X ((0 - 1) .. chunkSize) \X ((0 - 1) .. chunkSize)

\* C27: chunk.set(x, y, z, id) with id equal to the block id stored at
\* (x, y, z) leaves the chunk as it is (the voxel buffer, isEmpty, isFull,
\* _terrainDirty, _objectsDirty and the object blocks) and calls no handler
C27_SetSameIDIsNoOp ==
    \A c \in AllocatedIDs : \A p \in PaddedBounds :
        LET chunk == ChunkOf(c)
            r == ChunkSet(chunk, p[1], p[2], p[3],
                          ChunkGet(chunk, p[1], p[2], p[3]))
        IN  r.c = chunk /\ r.calls = << >>

\* setBlockID has just set block 1 where the meshed chunk held block 1, and
\* the chunk is not dirty
C27_Witness ==
    /\ emitted = << <<"chunkChanged", <<0, 0, 0>>, << >> >> >>
    /\ IsAllocated(<<0, 0, 0>>)
    /\ ChunkGet(ChunkOf(<<0, 0, 0>>), 1, 1, 1) = 1
    /\ ~ChunkOf(<<0, 0, 0>>).terrainDirty
    /\ ~ChunkOf(<<0, 0, 0>>).isFull

\* every cell of the padded grid of chunk c is stored with the opaque bit
EveryCellStoredOpaque(c) ==
    \A cell \in PaddedCells(chunkSize) :
        HasBit(ArrGet(c.array, cell), OPAQUE_BIT)

\* local coordinates of the unpadded view and of the padding
SetPlaces ==
    {<<0, 0, 0>>, <<1, 1, 1>>, <<0 - 1, 0, 0>>, <<chunkSize, 1, 1>>}

\* no chunk.set of a block id, at a coordinate of the unpadded view or of the
\* padding, turns isEmpty or isFull of chunk c from false to true
SetOnlyNarrows(c) ==
    \A p \in SetPlaces : \A id \in DOMAIN solidLookup :
        LET r == ChunkSet(c, p[1], p[2], p[3], id).c
        IN  /\ r.isEmpty => c.isEmpty
            /\ r.isFull => c.isFull

\* C28: no set call changes isEmpty or isFull from false to true, and in
\* every state reached by initData and set calls on interior or padding
\* cells, isEmpty implies that every cell of the padded grid is air and
\* isFull that every cell is opaque
C28_SetOnlyNarrowsFlags ==
    \A id \in AllocatedIDs :
        /\ SetOnlyNarrows(ChunkOf(id))
        /\ ChunkOf(id).isEmpty => EveryCellAir(ChunkOf(id))
        /\ ChunkOf(id).isFull => EveryCellStoredOpaque(ChunkOf(id))

\* setBlockID has just put a block that is not opaque into a chunk that was
\* full, which is full no more
C28_Witness ==
    /\ emitted # << >>
    /\ emitted[Len(emitted)] = <<"chunkChanged", <<0, 0, 0>>, << >> >>
    /\ IsAllocated(<<0, 0, 0>>)
    /\ ~ChunkOf(<<0, 0, 0>>).isFull
    /\ ~HasBit(ChunkGetPacked(ChunkOf(<<0, 0, 0>>), 0, 0, 0), OPAQUE_BIT)
    /\ \A cell \in PaddedCells(chunkSize) \ {<<1, 1, 1>>} :
           HasBit(ArrGet(ChunkOf(<<0, 0, 0>>).array, cell), OPAQUE_BIT)

----------------------------------------------------------------------------
(* Edits among blocks with handlers and object blocks: chunks of 2 voxels,
   the player in chunk (-1,0,0), whose origin is (-2,0,0); block 1 is
   terrain, block 2 a non-solid object block with the four handlers, and the
   game registers block MaxBlockID as a solid object block with onSet and
   onUnset, and tries to register id 0; the generator answers with air or
   with block 2 at the unpadded (0,0,0); the game sets every registered id
   at two voxels of the chunk *)

\* options {solid: true, opaque: false, blockMesh: mesh, onSet, onUnset}
SolidObjectBlock ==
    [solid |-> TRUE, opaque |-> FALSE, blockMesh |-> TRUE,
     handlers |-> {"onSet", "onUnset"}]

SetVoxels == {<<0 - 1, 0, 1>>, <<0 - 2, 0, 0>>}

InitSet == InitWorld(2, 0, 1, <<0 - 2, 0, 0>>)

NextSet ==
    \/ \E n \in 0 .. MaxPasses : Tick(n) /\ MeshQueueBound
    \/ \E array \in {AirArray, OneBlockArray(2)} :
           IsPending(<<0 - 1, 0, 0>>) /\ SetChunkData(<<0 - 1, 0, 0>>, array)
    \/ \E val \in DOMAIN solidLookup : \E v \in SetVoxels :
           SetBlockID(val, v[1], v[2], v[3])
    \/ \E id \in {0, MaxBlockID} : RegisterBlock(id, SolidObjectBlock)

SpecSet == InitSet /\ [][NextSet]_vars

\* the call of the handler `type' of block id, if it has one, for the voxel
\* at the local coordinate p of the chunk c: its world coordinates are the
\* chunk's origin, c times the chunk size, plus p
HandlerCall(id, type, c, p) ==
    IF type \in blockHandlerLookup[id]
    THEN << <<type, c, <<id, c[1] * chunkSize + p[1],
                         c[2] * chunkSize + p[2],
                         c[3] * chunkSize + p[3]>> >> >>
    ELSE << >>

\* C29: a set that changes an interior voxel calls the old id's onUnset
\* handler and then the new id's onSet handler, in that order and each once,
\* both with the world coordinates of the voxel, and nothing else; air has no
\* handler
C29_OnUnsetThenOnSet ==
    /\ blockHandlerLookup[0] = {}
    /\ \A c \in AllocatedIDs : \A p \in InBounds : \A id \in DOMAIN solidLookup :
           LET chunk == ChunkOf(c)
               old == ChunkGet(chunk, p[1], p[2], p[3])
           IN  id # old =>
                   ChunkSet(chunk, p[1], p[2], p[3], id).calls
                       = HandlerCall(old, "onUnset", c, p)
                         \o HandlerCall(id, "onSet", c, p)

\* setBlockID has just put the solid object block where chunk (-1,0,0) held
\* block 2 at its local (1,0,1), the voxel (-1,0,1) of the world
C29_Witness ==
    emitted = << <<"onUnset", <<0 - 1, 0, 0>>, <<2, 0 - 1, 0, 1>> >>,
                 <<"onSet", <<0 - 1, 0, 0>>, <<MaxBlockID, 0 - 1, 0, 1>> >>,
                 <<"chunkChanged", <<0 - 1, 0, 0>>, << >> >> >>

\* block id is air or a non-solid object block; it is a non-air non-object
\* block or a solid object block
AirOrLightObject(id) ==
    id = 0 \/ (objectMeshLookup[id] /\ ~solidLookup[id])
TerrainBlock(id) ==
    id # 0 /\ (~objectMeshLookup[id] \/ solidLookup[id])

\* the collaborators that updateMeshes of chunk c runs
MeshersRun(c) == {call[1] : call \in Members(ChunkUpdateMeshes(c).calls)}

\* updateMeshes of chunk c runs the greedy mesher iff _terrainDirty is set,
\* rebuilds the object mesh iff _objectsDirty is set, and clears both flags
UpdateMeshesFollowsFlags(c) ==
    /\ "meshTerrain" \in MeshersRun(c) <=> c.terrainDirty
    /\ "buildObjectMesh" \in MeshersRun(c) <=> c.objectsDirty
    /\ ~ChunkUpdateMeshes(c).c.terrainDirty
    /\ ~ChunkUpdateMeshes(c).c.objectsDirty

\* C30: a set that changes a voxel between air and non-solid object blocks
\* leaves _terrainDirty as it is and sets _objectsDirty; a set whose old or
\* new id is a non-air non-object block or a solid object block sets
\* _terrainDirty; the updateMeshes that follows runs the greedy mesher only
\* if _terrainDirty is set, rebuilds the object mesh only if _objectsDirty
\* is set, and clears both flags
C30_TerrainAndObjectsIndependent ==
    \A c \in AllocatedIDs : \A p \in PaddedBounds : \A id \in DOMAIN solidLookup :
        LET chunk == ChunkOf(c)
            old == ChunkGet(chunk, p[1], p[2], p[3])
            r == ChunkSet(chunk, p[1], p[2], p[3], id).c
        IN  /\ UpdateMeshesFollowsFlags(chunk)
            /\ id # old =>
                   /\ AirOrLightObject(old) /\ AirOrLightObject(id) =>
                          /\ r.terrainDirty = chunk.terrainDirty
                          /\ r.objectsDirty
                   /\ TerrainBlock(old) \/ TerrainBlock(id) => r.terrainDirty
                   /\ UpdateMeshesFollowsFlags(r)

----------------------------------------------------------------------------
(* The face-mask rule (specification SpecFaces): getFaceDir is called, as
   constructMeshMasks calls it, with the values of two cells next to each
   other on the sweep axis; the values are those packID gives: 0 for air, and
   a block id with any of the three flag bits *)

PackedValues ==
    {0} \cup {id + s * SOLID_BIT + o * OPAQUE_BIT + b * OBJECT_BIT :
                 id \in 1 .. 2, s \in 0 .. 1, o \in 0 .. 1, b \in 0 .. 1}

\* the call getFaceDir(id0, id1) of constructMeshMasks
GetFaceDir(id0, id1) ==
    /\ emitted' = << <<"getFaceDir", <<id0, id1>>, getFaceDir(id0, id1)>> >>
    /\ UNCHANGED <<config, registry, scheduler, playerPos>>

NextFaces == \E id0 \in PackedValues : \E id1 \in PackedValues :
                 GetFaceDir(id0, id1)

SpecFaces == InitMesher /\ [][NextFaces]_vars

IsOpaque(v) == HasBit(v, OPAQUE_BIT)
AirOrObject(v) == v = 0 \/ HasBit(v, OBJECT_BIT)
PlainNonOpaque(v) == ~IsOpaque(v) /\ ~AirOrObject(v)

\* the face-mask rule for a at i - 1 and b at i: dir is 0 for no face, 1 for
\* a face of a towards b, -1 for a face of b towards a
FaceRule(a, b, dir) ==
    /\ a = b \/ (IsOpaque(a) /\ IsOpaque(b))
           \/ (PlainNonOpaque(a) /\ PlainNonOpaque(b)) => dir = 0
    /\ a # b /\ IsOpaque(a) /\ ~IsOpaque(b) => dir = 1
    /\ a # b /\ IsOpaque(b) /\ ~IsOpaque(a) => dir = 0 - 1
    /\ PlainNonOpaque(a) /\ ~IsOpaque(b) /\ AirOrObject(b) => dir = 1
    /\ PlainNonOpaque(b) /\ ~IsOpaque(a) /\ AirOrObject(a) => dir = 0 - 1

\* C31: for every pair of packed values a at i - 1 and b at i there is no
\* face if a and b are identical, or both opaque, or two different
\* non-opaque non-air non-object blocks; a '+' face for a if a is opaque and b
\* is not; a '-' face for b if b is opaque and a is not; and if neither is
\* opaque and one is air or an object block and the other a plain block, a
\* face for the plain block towards the air or the object
C31_FaceMaskRule ==
    \A n \in 1 .. Len(emitted) :
        emitted[n][1] = "getFaceDir" =>
            FaceRule(emitted[n][2][1], emitted[n][2][2], emitted[n][3])

\* getFaceDir has just given the face between a non-solid object block at
\* i - 1 and a plain block that is not opaque at i to the plain block
C31_Witness ==
    emitted = << <<"getFaceDir", <<2 + OBJECT_BIT, 1 + SOLID_BIT>>, 0 - 1>> >>

----------------------------------------------------------------------------
(* The chunk store and the tracking lists (specification Spec) *)

\* C32: every allocated chunk has its id in exactly one of the to-create
\* queue and the in-memory list, in the in-memory list exactly when it is
\* generated, and the id of a chunk that is not in the store is in neither
C32_AllocatedInOneList ==
    /\ \A id \in AllocatedIDs :
           /\ InSeq(id, chunkIDsToCreate) # InSeq(id, chunkIDsInMemory)
           /\ InSeq(id, chunkIDsInMemory) <=> ChunkOf(id).isGenerated
    /\ \A id \in Members(chunkIDsToCreate) \cup Members(chunkIDsInMemory) :
           IsAllocated(id)

\* a tick has just removed the generated chunk 0|0|0 and requested chunk
\* 1|0|0, which waits for its data
C32_Witness ==
    /\ \E n \in 1 .. Len(emitted) :
           emitted[n][1] = "chunkBeingRemoved" /\ emitted[n][2] = <<0, 0, 0>>
    /\ ~IsAllocated(<<0, 0, 0>>)
    /\ IsAllocated(<<1, 0, 0>>)
    /\ IsPending(<<1, 0, 0>>)
    /\ ~ChunkOf(<<1, 0, 0>>).isGenerated

\* the ids of the two mesh queues
MeshQueued == Members(chunkIDsToMesh) \cup Members(chunkIDsToMeshFirst)

\* C33: every id in the to-mesh queue or the to-mesh-first queue is the id
\* of an allocated chunk: once a chunk is removed its id is in neither mesh
\* queue, so that a meshing pass never looks up a chunk that is not there
C33_MeshQueuesHoldAllocated ==
    \A id \in MeshQueued : IsAllocated(id)

\* no id occurs twice in the queue
NoRepeat(queue) ==
    \A m \in 1 .. Len(queue) : \A n \in 1 .. Len(queue) :
        queue[m] = queue[n] => m = n

\* C34: each of the six queues (to-add, to-remove, in-memory, to-create,
\* to-mesh, to-mesh-first) holds any id at most once, also after edits to
\* chunks that are not generated yet, between beforeRender and tick passes
C34_QueuesHoldEachIdOnce ==
    /\ NoRepeat(chunkIDsToAdd)
    /\ NoRepeat(chunkIDsToRemove)
    /\ NoRepeat(chunkIDsInMemory)
    /\ NoRepeat(chunkIDsToCreate)
    /\ NoRepeat(chunkIDsToMesh)
    /\ NoRepeat(chunkIDsToMeshFirst)

\* the five queues that are filled by enqueueID or rebuilt from scratch
FiveQueuesHoldEachIdOnce ==
    /\ NoRepeat(chunkIDsToAdd)
    /\ NoRepeat(chunkIDsToRemove)
    /\ NoRepeat(chunkIDsInMemory)
    /\ NoRepeat(chunkIDsToCreate)
    /\ NoRepeat(chunkIDsToMeshFirst)

----------------------------------------------------------------------------
(* The remove queue (specification SpecRemoval) *)

\* the places of a log where chunk id is disposed
DisposedAt(log, id) ==
    {n \in 1 .. Len(log) : log[n][1] = "dispose" /\ log[n][2] = id}

\* C35: every id in the to-remove queue is in the in-memory list, so that
\* removeChunk is only called for a chunk that is allocated and not disposed,
\* and no chunk is disposed twice
C35_RemoveQueueHoldsChunksInMemory ==
    /\ \A id \in Members(chunkIDsToRemove) :
           InSeq(id, chunkIDsInMemory) /\ IsAllocated(id)
    /\ \A n \in 1 .. Len(emitted) :
           /\ emitted[n][1] # "TypeError"
           /\ emitted[n][1] = "dispose" =>
                  /\ DisposedAt(emitted, emitted[n][2]) = {n}
                  /\ ~IsAllocated(emitted[n][2])

\* a tick has just disposed one chunk and left another in the remove queue
C35_Witness ==
    /\ chunkIDsToRemove # << >>
    /\ \E n \in 1 .. Len(emitted) : emitted[n][1] = "dispose"

----------------------------------------------------------------------------
(* Remeshes that are owed (specification Spec) *)

\* the chunk is generated, valid and has terrain or objects to mesh anew
OwesRemesh(id) ==
    /\ ChunkOf(id).isGenerated
    /\ ~ChunkOf(id).isInvalid
    /\ ChunkOf(id).terrainDirty \/ ChunkOf(id).objectsDirty

\* C36: every allocated, generated chunk that is not invalid and has
\* _terrainDirty or _objectsDirty set has its id in the to-mesh queue or in
\* the to-mesh-first queue
C36_DirtyChunksAreQueued ==
    \A id \in AllocatedIDs : OwesRemesh(id) => id \in MeshQueued

\* setBlockID has just changed a voxel of the generated chunk 0|0|0, whose
\* terrain is now dirty and whose id waits in the to-mesh-first queue
C36_Witness ==
    /\ IsAllocated(<<0, 0, 0>>)
    /\ OwesRemesh(<<0, 0, 0>>)
    /\ ChunkOf(<<0, 0, 0>>).terrainDirty
    /\ InSeq(<<0, 0, 0>>, chunkIDsToMeshFirst)
    /\ \E n \in 1 .. Len(emitted) : emitted[n][1] = "chunkChanged"

----------------------------------------------------------------------------
(* Which chunks a tick disposes (specification SpecRemoval) *)

\* chunk id is valid and nearer to the player's chunk than chunkRemoveDistance
KeptNear(id) ==
    /\ ~ChunkOf(id).isInvalid
    /\ RemoveDistSq(id, getPlayerChunkCoords[1], getPlayerChunkCoords[2],
                    getPlayerChunkCoords[3])
           < chunkRemoveDistance * chunkRemoveDistance

\* C37: a tick never disposes a chunk that is not marked invalid and whose
\* squared distance to the chunk the player is in at that tick is less than
\* the square of chunkRemoveDistance, also when the remove queue was built
\* in an earlier tick and the player has moved since
C37_TickKeepsNearValidChunks ==
    [][\A id \in AllocatedIDs :
           KeptNear(id) => DisposedAt(emitted', id) = {}]_vars

\* a tick has just disposed a chunk, the remove queue is one that an earlier
\* tick built (the player is in the chunk of that tick, after a move away
\* and back), and a valid chunk near the player stays in memory
C37_Witness ==
    /\ \E n \in 1 .. Len(emitted) : emitted[n][1] = "dispose"
    /\ \A n \in 1 .. Len(emitted) : emitted[n][1] # "playerEnteredChunk"
    /\ \E id \in AllocatedIDs : KeptNear(id) /\ InSeq(id, chunkIDsInMemory)

----------------------------------------------------------------------------
(* The order of the lifecycle handlers (specification SpecHandlers) *)

Activations == {"onLoad", "onSet"}
Deactivations == {"onUnset", "onUnload"}

\* the world voxel of a handler call of a log
VoxelOf(call) == <<call[3][2], call[3][3], call[3][4]>>

\* the places of a log where a lifecycle handler is called for voxel v
CallsAt(log, v) ==
    {n \in HandlerCalls(log, Activations \cup Deactivations) :
        VoxelOf(log[n]) = v}

\* the voxels for which a log calls a lifecycle handler
VoxelsOf(log) ==
    {VoxelOf(log[n]) :
        n \in HandlerCalls(log, Activations \cup Deactivations)}

\* call b may follow call a at one voxel: after an activation comes the
\* deactivation of the same block id
MayFollow(a, b) ==
    a[1] \in Activations => b[1] \in Deactivations /\ b[3][1] = a[3][1]

Max(S) == CHOOSE n \in S : \A m \in S : m <= n
Min(S) == CHOOSE n \in S : \A m \in S : n <= m

\* C38: the lifecycle handlers alternate at each voxel: an activation (onLoad
\* or onSet) is never followed by another activation at that voxel without a
\* deactivation (onUnset or onUnload) of the same id in between, also for
\* edits made before the chunk's data arrives; stated here for the calls of
\* one handler of the world and of the next
C38_HandlersAlternate ==
    [][/\ \A v \in VoxelsOf(emitted') :
              \A m \in CallsAt(emitted', v) : \A n \in CallsAt(emitted', v) :
                  /\ m < n
                  /\ \A k \in CallsAt(emitted', v) : ~(m < k /\ k < n)
                  => MayFollow(emitted'[m], emitted'[n])
       /\ \A v \in VoxelsOf(emitted) \cap VoxelsOf(emitted') :
              MayFollow(emitted[Max(CallsAt(emitted, v))],
                        emitted'[Min(CallsAt(emitted', v))])]_vars

----------------------------------------------------------------------------
(* The object-block map of a chunk (specification SpecObjects): the world of
   SpecHandlers, where the generator answers with air for chunk (0,0,0) and
   for chunk (-1,0,0), which holds voxel (0,0,0) in its padding at x = size,
   and the game sets the object block 2 and air at voxel (0,0,0) *)

ObjectAnswered == {<<0, 0, 0>>, <<0 - 1, 0, 0>>}

NextObjects ==
    \/ \E n \in 0 .. MaxPasses : Tick(n) /\ MeshQueueBound
    \/ \E id \in ObjectAnswered : IsPending(id) /\ SetChunkData(id, AirArray)
    \/ \E val \in {0, 2} : SetBlockID(val, 0, 0, 0)

SpecObjects == InitHandlers /\ [][NextObjects]_vars

\* the unpadded coordinates whose stored voxel carries OBJECT_BIT
ObjectVoxels(c) ==
    {p \in InBounds : HasBit(ChunkGetPacked(c, p[1], p[2], p[3]), OBJECT_BIT)}

\* no key of the object-block map of a generated chunk is a padding coordinate
NoPaddingObjectBlock ==
    \A id \in AllocatedIDs :
        ChunkOf(id).isGenerated =>
            DOMAIN ChunkOf(id).objectBlocks \subseteq InBounds

\* C39: in every state of a generated chunk, reached through initData, set
\* and the padding writes that edits of border voxels make, the keys of the
\* chunk's object-block map are the unpadded coordinates whose stored voxel
\* carries OBJECT_BIT, each entry holds the block id stored at its voxel, and
\* no key is a padding coordinate
C39_ObjectBlocksMatchVoxels ==
    \A id \in AllocatedIDs :
        ChunkOf(id).isGenerated =>
            /\ DOMAIN ChunkOf(id).objectBlocks = ObjectVoxels(ChunkOf(id))
            /\ \A p \in DOMAIN ChunkOf(id).objectBlocks :
                   ChunkOf(id).objectBlocks[p]
                       = ChunkGet(ChunkOf(id), p[1], p[2], p[3])

----------------------------------------------------------------------------
(* Settling (specification SpecSettle): the world of SpecHandlers with the
   player at rest in chunk (0,0,0), whose add sphere holds seven chunks; no
   invalidation and no edit; every tick runs at least one pass of its loop,
   and the generator answers with air one of the oldest AnswerWindow
   requests that are pending, so that answers overtake each other *)

\* the generator answers one of this many oldest pending requests
AnswerWindow == 2

\* the generator answers one of the oldest pending requests with air
Answer ==
    \E k \in 1 .. AnswerWindow :
        /\ k <= Len(chunkIDsToCreate)
        /\ SetChunkData(chunkIDsToCreate[k], AirArray)

NextSettle ==
    \/ \E n \in 1 .. MaxPasses : Tick(n)
    \/ Answer

SpecSettle == InitHandlers /\ [][NextSettle]_vars

\* the chunk coordinates within chunkAddDistance of the player's chunk
AddSphere ==
    {c \in ((0 - chunkAddDistance) .. chunkAddDistance)
           \X ((0 - chunkAddDistance) .. chunkAddDistance)
           \X ((0 - chunkAddDistance) .. chunkAddDistance) :
        c[1] * c[1] + c[2] * c[2] + c[3] * c[3]
            <= chunkAddDistance * chunkAddDistance}

\* nothing is left to request, to generate or to mesh around the player
Settled ==
    /\ chunkIDsToAdd = << >>
    /\ chunkIDsToCreate = << >>
    /\ chunkIDsToMesh = << >>
    /\ chunkIDsToMeshFirst = << >>
    /\ \A c \in AddSphere :
           LET id == <<getPlayerChunkCoords[1] + c[1],
                       getPlayerChunkCoords[2] + c[2],
                       getPlayerChunkCoords[3] + c[3]>>
           IN  /\ IsAllocated(id)
               /\ InSeq(id, chunkIDsInMemory)
               /\ ChunkOf(id).isGenerated

\* the engine keeps calling tick while a tick has work to do, and the
\* generator keeps answering while a request is pending
TicksAndAnswersKeepComing ==
    /\ \/ []<>~TickHasWork
       \/ []<><<\E n \in 1 .. MaxPasses : Tick(n)>>_vars
    /\ \/ []<>~GeneratorHasWork
       \/ []<><<Answer>>_vars

\* C40: with the player at rest, no invalidation, a generator that answers
\* every worldDataNeeded request in the end, and ticks of at least one pass,
\* the scheduler reaches a state where the to-add and to-create queues are
\* empty, every chunk within chunkAddDistance of the player is in memory and
\* generated, and both mesh queues are empty; and a state where neither a
\* tick nor the generator has work left is such a state
C40_SchedulerSettles ==
    /\ [](~(TickHasWork \/ GeneratorHasWork) => Settled)
    /\ TicksAndAnswersKeepComing => <>Settled

\* all seven chunks of the add sphere are in memory and meshed
C40_Witness ==
    /\ Settled
    /\ Len(chunkIDsInMemory) = 7

====
